---------------------------- MODULE Spec2Model ----------------------------
(***************************************************************************)
(* Model of src/app.py (MCA multi-business processor).                     *)
(*                                                                         *)
(* Text is modelled by TLA+ strings, character by character: a regular     *)
(* expression of the source is a tree of the nodes below and is matched    *)
(* against the text as Python's re module matches it (re.search: some      *)
(* substring matches).                                                     *)
(***************************************************************************)
EXTENDS Integers, Sequences, FiniteSets, TLC

\* categorize_transaction: the transaction, the value returned, the position.
VARIABLES txn, result, pc

\* process_multiple_json_files: its arguments, its locals, the messages shown
\* (st.warning, st.error) and the position.
VARIABLES uploaded_files, business_name_mappings, start_date, end_date,
          file_index, txn_index, transactions, routing_data, all_business_data,
          warnings, errors, bpc

\* clean_account_name: its argument, its local name, the number of removal
\* terms applied, the value returned and the position.
VARIABLES raw, working_name, term_index, cleaned, cpc

\* extract_business_name_from_json: its arguments, the number of accounts
\* grouped, the local account_info (a dict, kept in insertion order), the
\* value returned and the position.
VARIABLES extract_json, extract_filename, account_index, account_info,
          extraction, epc

\* extract_business_name_from_filename: its argument, its local name, the
\* value returned and the position.
VARIABLES file_identifier, fname, derived, fpc

\* The database: the rows of the tables businesses and processing_history,
\* the last id each table handed out (AUTOINCREMENT), and the calls of
\* add_or_update_business and save_processing_history made so far, each
\* with its arguments, the time it read and the value it returned.
VARIABLES businesses, businesses_seq, processing_history, history_seq, calls

classifier_vars == <<txn, result, pc>>

filename_vars == <<file_identifier, fname, derived, fpc>>

db_vars == <<businesses, businesses_seq, processing_history, history_seq, calls>>

extract_vars ==
    <<extract_json, extract_filename, account_index, account_info,
      extraction, epc>>

clean_vars == <<raw, working_name, term_index, cleaned, cpc>>

batch_vars ==
    <<uploaded_files, business_name_mappings, start_date, end_date,
      file_index, txn_index, transactions, routing_data, all_business_data,
      warnings, errors, bpc>>

vars ==
    <<classifier_vars, batch_vars, clean_vars, extract_vars, filename_vars,
      db_vars>>

\* No call of categorize_transaction is under way.
ClassifierIdle == txn = <<>> /\ result = "NoResult" /\ pc = "idle"

\* No call of clean_account_name is under way.
CleanIdle ==
    /\ raw = [t |-> "none"] /\ working_name = "" /\ term_index = 0
    /\ cleaned = "NoResult" /\ cpc = "idle"

\* No call of extract_business_name_from_json is under way.
ExtractIdle ==
    /\ extract_json = <<>> /\ extract_filename = "" /\ account_index = 0
    /\ account_info = <<>> /\ extraction = "NoResult" /\ epc = "idle"

\* No call of extract_business_name_from_filename is under way.
FilenameIdle ==
    file_identifier = "" /\ fname = "" /\ derived = "NoResult" /\ fpc = "idle"

\* The database is not in use.
DbIdle ==
    /\ businesses = {} /\ businesses_seq = 0 /\ processing_history = {}
    /\ history_seq = 0 /\ calls = <<>>

\* No call of process_multiple_json_files is under way.
BatchIdle ==
    /\ uploaded_files = <<>> /\ business_name_mappings = <<>>
    /\ start_date = [t |-> "none"] /\ end_date = [t |-> "none"]
    /\ file_index = 0 /\ txn_index = 0 /\ transactions = <<>> /\ routing_data = <<>>
    /\ all_business_data = <<>> /\ warnings = <<>> /\ errors = <<>>
    /\ bpc = "idle"

---------------------------------------------------------------------------
(* Characters and Python's str methods.                                    *)

LowerLetters ==
    {"a","b","c","d","e","f","g","h","i","j","k","l","m",
     "n","o","p","q","r","s","t","u","v","w","x","y","z"}

UpperLetters ==
    {"A","B","C","D","E","F","G","H","I","J","K","L","M",
     "N","O","P","Q","R","S","T","U","V","W","X","Y","Z"}

Digits == {"0","1","2","3","4","5","6","7","8","9"}

\* \w of the re module, on ASCII text.
WordChars == LowerLetters \cup UpperLetters \cup Digits \cup {"_"}

\* \s of the re module (and what str.strip() removes), on ASCII text.
Whitespace == {" ", "\t", "\n", "\r", "\f"}

LowerOf ==
    [c \in UpperLetters |->
        CASE c = "A" -> "a" [] c = "B" -> "b" [] c = "C" -> "c" [] c = "D" -> "d"
          [] c = "E" -> "e" [] c = "F" -> "f" [] c = "G" -> "g" [] c = "H" -> "h"
          [] c = "I" -> "i" [] c = "J" -> "j" [] c = "K" -> "k" [] c = "L" -> "l"
          [] c = "M" -> "m" [] c = "N" -> "n" [] c = "O" -> "o" [] c = "P" -> "p"
          [] c = "Q" -> "q" [] c = "R" -> "r" [] c = "S" -> "s" [] c = "T" -> "t"
          [] c = "U" -> "u" [] c = "V" -> "v" [] c = "W" -> "w" [] c = "X" -> "x"
          [] c = "Y" -> "y" [] c = "Z" -> "z"]

CharAt(s, i) == SubSeq(s, i, i)

LowerChar(c) == IF c \in UpperLetters THEN LowerOf[c] ELSE c

RECURSIVE LowerFrom(_, _)
LowerFrom(s, i) ==
    IF i > Len(s) THEN "" ELSE LowerChar(CharAt(s, i)) \o LowerFrom(s, i + 1)

\* str.lower()
Lower(s) == LowerFrom(s, 1)

RECURSIVE LStripFrom(_, _)
LStripFrom(s, i) ==
    IF i <= Len(s) /\ CharAt(s, i) \in Whitespace THEN LStripFrom(s, i + 1) ELSE i

RECURSIVE RStripTo(_, _)
RStripTo(s, j) ==
    IF j >= 1 /\ CharAt(s, j) \in Whitespace THEN RStripTo(s, j - 1) ELSE j

\* str.strip()
Strip(s) == SubSeq(s, LStripFrom(s, 1), RStripTo(s, Len(s)))

RECURSIVE ReplaceFrom(_, _, _, _)
\* Every occurrence of the character old replaced by new, from index i on.
ReplaceFrom(s, old, new, i) ==
    IF i > Len(s) THEN ""
    ELSE (IF CharAt(s, i) = old THEN new ELSE CharAt(s, i))
            \o ReplaceFrom(s, old, new, i + 1)

\* str.replace(old, new), for a one-character old
Replace(s, old, new) == ReplaceFrom(s, old, new, 1)

\* str.startswith(p)
StartsWith(s, p) == Len(p) <= Len(s) /\ SubSeq(s, 1, Len(p)) = p

RECURSIVE JoinFrom(_, _, _)
JoinFrom(sep, xs, i) ==
    IF i > Len(xs) THEN ""
    ELSE IF i = Len(xs) THEN xs[i]
    ELSE xs[i] \o sep \o JoinFrom(sep, xs, i + 1)

\* sep.join(xs)
Join(sep, xs) == JoinFrom(sep, xs, 1)

---------------------------------------------------------------------------
(* Regular expressions.  A position p in 1..Len(s)+1 stands before the     *)
(* character s[p].                                                         *)

Lit(str)    == [k |-> "lit", s |-> str]
OneOf(C)    == [k |-> "set", c |-> C]
Opt(r)      == [k |-> "opt", r |-> r]
Star(r)     == [k |-> "star", r |-> r]
Plus(r)     == [k |-> "plus", r |-> r]
Cat(rs)     == [k |-> "cat", rs |-> rs]
Alt(rs)     == [k |-> "alt", rs |-> rs]
WB          == [k |-> "wb"]

\* \b: exactly one of the two neighbours of the position is a word character.
IsWordBoundary(s, p) ==
    (p > 1 /\ CharAt(s, p - 1) \in WordChars)
        # (p <= Len(s) /\ CharAt(s, p) \in WordChars)

RECURSIVE MatchEnds(_, _, _)
RECURSIVE CatEnds(_, _, _, _)
RECURSIVE StarEnds(_, _, _)

\* The positions at which a match of r that starts at p can end.
MatchEnds(r, s, p) ==
    CASE r.k = "lit" ->
            IF p + Len(r.s) - 1 <= Len(s) /\ SubSeq(s, p, p + Len(r.s) - 1) = r.s
            THEN {p + Len(r.s)} ELSE {}
      [] r.k = "set" ->
            IF p <= Len(s) /\ CharAt(s, p) \in r.c THEN {p + 1} ELSE {}
      [] r.k = "wb" -> IF IsWordBoundary(s, p) THEN {p} ELSE {}
      [] r.k = "opt" -> {p} \cup MatchEnds(r.r, s, p)
      [] r.k = "star" -> StarEnds(r.r, s, {p})
      [] r.k = "plus" -> StarEnds(r.r, s, MatchEnds(r.r, s, p))
      [] r.k = "cat" -> CatEnds(r.rs, 1, s, {p})
      [] r.k = "alt" -> UNION {MatchEnds(r.rs[i], s, p) : i \in DOMAIN r.rs}

CatEnds(rs, i, s, P) ==
    IF P = {} \/ i > Len(rs) THEN P
    ELSE CatEnds(rs, i + 1, s, UNION {MatchEnds(rs[i], s, p) : p \in P})

StarEnds(r, s, P) ==
    LET N == UNION {MatchEnds(r, s, p) : p \in P} IN
    IF N \subseteq P THEN P ELSE StarEnds(r, s, P \cup N)

\* re.search(r, s) is not None
re_search(r, s) == \E p \in 1..(Len(s) + 1) : MatchEnds(r, s, p) # {}

\* re.search(r, s, re.IGNORECASE) is not None, for a pattern r whose
\* literals are all lower case.
re_search_ignorecase(r, s) == re_search(r, Lower(s))

---------------------------------------------------------------------------
(* The keyword vocabularies of map_transaction_category, each the tree of  *)
(* the regular expression at the source lines named above it.              *)

\* \s
Sp == OneOf(Whitespace)

\* [\s\-]
SpHy == OneOf(Whitespace \cup {"-"})

\* src/app.py:257-269 (?i)
ProcessorPattern ==
    Cat(<<WB, Alt(<<
        Lit("stripe"),
        Lit("sumup"),
        Lit("zettle"),
        Lit("square"),
        Cat(<<Lit("take"), Star(Sp), Lit("payments")>>),
        Lit("shopify"),
        Cat(<<Lit("card"), Plus(Sp), Lit("settlement")>>),
        Cat(<<Lit("daily"), Plus(Sp), Lit("takings")>>),
        Lit("payout"),
        Lit("paypal"),
        Cat(<<Lit("go"), Star(Sp), Lit("cardless")>>),
        Lit("klarna"),
        Lit("worldpay"),
        Lit("izettle"),
        Lit("ubereats"),
        Cat(<<Lit("just"), Star(Sp), Lit("eat")>>),
        Lit("deliveroo"),
        Lit("uber"),
        Lit("bolt"),
        Lit("fresha"),
        Lit("treatwell"),
        Lit("taskrabbit"),
        Lit("terminal"),
        Cat(<<Lit("pos"), Plus(Sp), Lit("deposit")>>),
        Lit("revolut"),
        Cat(<<Lit("capital"), Plus(Sp), Lit("on"), Plus(Sp), Lit("tap")>>),
        Cat(<<Lit("capital"), Plus(Sp), Lit("one")>>),
        Cat(<<Lit("evo"), Star(Sp), Lit("payment"), Opt(Lit("s"))>>),
        Lit("tink"),
        Cat(<<Lit("teya"), Opt(Cat(<<Plus(Sp), Lit("solutions")>>))>>),
        Lit("talech"),
        Lit("barclaycard"),
        Lit("elavon"),
        Lit("adyen"),
        Lit("payzone"),
        Lit("verifone"),
        Lit("ingenico"),
        Lit("nmi"),
        Cat(<<Lit("trust"), Plus(Sp), Lit("payment"), Opt(Lit("s"))>>),
        Cat(<<Lit("global"), Plus(Sp), Lit("payment"), Opt(Lit("s"))>>),
        Lit("checkout.com"),
        Lit("epdq"),
        Lit("santander"),
        Lit("handepay"),
        Lit("dojo"),
        Lit("valitor"),
        Lit("paypoint"),
        Lit("mypos"),
        Lit("moneris"),
        Cat(<<Lit("merchant"), Plus(Sp), Lit("services")>>),
        Cat(<<Lit("payment"), Plus(Sp), Lit("sense")>>)>>), WB>>)

\* src/app.py:271-271
FunderPattern ==
    Alt(<<
        Cat(<<Lit("you"), Opt(Sp), Lit("lend")>>),
        Cat(<<Lit("yl"), Opt(Sp), Lit("ii")>>),
        Cat(<<Lit("yl"), Opt(Sp), Lit("ltd")>>),
        Cat(<<Lit("yl"), Opt(Sp), Lit("limited")>>),
        Cat(<<Lit("yl"), Opt(Sp), Lit("a"), Opt(Sp), Lit("limited")>>)>>)

\* src/app.py:273-273
FundingPattern ==
    Alt(<<
        Lit("fnd"),
        Lit("fund"),
        Lit("funding")>>)

\* src/app.py:277-289
LenderCreditPattern ==
    Alt(<<
        Cat(<<WB, Lit("iwoca"), WB>>),
        Cat(<<WB, Lit("capify"), WB>>),
        Cat(<<WB, Lit("fundbox"), WB>>),
        Cat(<<WB, Lit("got"), Opt(SpHy), Lit("capital"), WB>>),
        Cat(<<WB, Lit("funding"), Opt(SpHy), Lit("circle"), WB>>),
        Cat(<<WB, Lit("fleximize"), WB>>),
        Cat(<<WB, Lit("marketfinance"), WB>>),
        Cat(<<WB, Lit("liberis"), WB>>),
        Cat(<<WB, Lit("esme"), Opt(SpHy), Lit("loans"), WB>>),
        Cat(<<WB, Lit("thincats"), WB>>),
        Cat(<<WB, Lit("white"), Opt(SpHy), Lit("oak"), WB>>),
        Cat(<<WB, Lit("growth"), Opt(SpHy), Lit("street"), WB>>),
        Cat(<<WB, Lit("nucleus"), Opt(SpHy), Lit("commercial"), Opt(SpHy), Lit("finance"),
            WB>>),
        Cat(<<WB, Lit("ultimate"), Opt(SpHy), Lit("finance"), WB>>),
        Cat(<<WB, Lit("just"), Opt(SpHy), Lit("cash"), Opt(SpHy), Lit("flow"), WB>>),
        Cat(<<WB, Lit("boost"), Opt(SpHy), Lit("capital"), WB>>),
        Cat(<<WB, Lit("merchant"), Opt(SpHy), Lit("money"), WB>>),
        Cat(<<WB, Lit("capital"), Opt(SpHy), Lit("on"), Opt(SpHy), Lit("tap"), WB>>),
        Cat(<<WB, Lit("kriya"), WB>>),
        Cat(<<WB, Lit("uncapped"), WB>>),
        Cat(<<WB, Lit("lendingcrowd"), WB>>),
        Cat(<<WB, Lit("folk2folk"), WB>>),
        Cat(<<WB, Lit("funding"), Opt(SpHy), Lit("tree"), WB>>),
        Cat(<<WB, Lit("start"), Opt(SpHy), Lit("up"), Opt(SpHy), Lit("loans"), WB>>),
        Cat(<<WB, Lit("bcrs"), Opt(SpHy), Lit("business"), Opt(SpHy), Lit("loans"), WB>>),
        Cat(<<WB, Lit("business"), Opt(SpHy), Lit("enterprise"), Opt(SpHy), Lit("fund"), WB>>),
        Cat(<<WB, Lit("swig"), Opt(SpHy), Lit("finance"), WB>>),
        Cat(<<WB, Lit("enterprise"), Opt(SpHy), Lit("answers"), WB>>),
        Cat(<<WB, Lit("let's"), Opt(SpHy), Lit("do"), Opt(SpHy), Lit("business"), Opt(SpHy),
            Lit("finance"), WB>>),
        Cat(<<WB, Lit("finance"), Opt(SpHy), Lit("for"), Opt(SpHy), Lit("enterprise"), WB>>),
        Cat(<<WB, Lit("dsl"), Opt(SpHy), Lit("business"), Opt(SpHy), Lit("finance"), WB>>),
        Cat(<<WB, Lit("bizcap"), Opt(SpHy), Lit("uk"), WB>>),
        Cat(<<WB, Lit("sigma"), Opt(SpHy), Lit("lending"), WB>>),
        Cat(<<WB, Lit("bizlend"), Opt(SpHy), Lit("ltd"), WB>>),
        Cat(<<WB, Lit("loan"), Opt(Lit("s")), WB>>)>>)

\* src/app.py:292-303
LenderDebitPattern ==
    Alt(<<
        Cat(<<WB, Lit("iwoca"), WB>>),
        Cat(<<WB, Lit("capify"), WB>>),
        Cat(<<WB, Lit("fundbox"), WB>>),
        Cat(<<WB, Lit("got"), Opt(SpHy), Lit("capital"), WB>>),
        Cat(<<WB, Lit("funding"), Opt(SpHy), Lit("circle"), WB>>),
        Cat(<<WB, Lit("fleximize"), WB>>),
        Cat(<<WB, Lit("marketfinance"), WB>>),
        Cat(<<WB, Lit("liberis"), WB>>),
        Cat(<<WB, Lit("esme"), Opt(SpHy), Lit("loans"), WB>>),
        Cat(<<WB, Lit("thincats"), WB>>),
        Cat(<<WB, Lit("white"), Opt(SpHy), Lit("oak"), WB>>),
        Cat(<<WB, Lit("growth"), Opt(SpHy), Lit("street"), WB>>),
        Cat(<<WB, Lit("nucleus"), Opt(SpHy), Lit("commercial"), Opt(SpHy), Lit("finance"),
            WB>>),
        Cat(<<WB, Lit("ultimate"), Opt(SpHy), Lit("finance"), WB>>),
        Cat(<<WB, Lit("just"), Opt(SpHy), Lit("cash"), Opt(SpHy), Lit("flow"), WB>>),
        Cat(<<WB, Lit("boost"), Opt(SpHy), Lit("capital"), WB>>),
        Cat(<<WB, Lit("merchant"), Opt(SpHy), Lit("money"), WB>>),
        Cat(<<WB, Lit("capital"), Opt(SpHy), Lit("on"), Opt(SpHy), Lit("tap"), WB>>),
        Cat(<<WB, Lit("kriya"), WB>>),
        Cat(<<WB, Lit("uncapped"), WB>>),
        Cat(<<WB, Lit("lendingcrowd"), WB>>),
        Cat(<<WB, Lit("folk2folk"), WB>>),
        Cat(<<WB, Lit("funding"), Opt(SpHy), Lit("tree"), WB>>),
        Cat(<<WB, Lit("start"), Opt(SpHy), Lit("up"), Opt(SpHy), Lit("loans"), WB>>),
        Cat(<<WB, Lit("bcrs"), Opt(SpHy), Lit("business"), Opt(SpHy), Lit("loans"), WB>>),
        Cat(<<WB, Lit("business"), Opt(SpHy), Lit("enterprise"), Opt(SpHy), Lit("fund"), WB>>),
        Cat(<<WB, Lit("swig"), Opt(SpHy), Lit("finance"), WB>>),
        Cat(<<WB, Lit("enterprise"), Opt(SpHy), Lit("answers"), WB>>),
        Cat(<<WB, Lit("let's"), Opt(SpHy), Lit("do"), Opt(SpHy), Lit("business"), Opt(SpHy),
            Lit("finance"), WB>>),
        Cat(<<WB, Lit("finance"), Opt(SpHy), Lit("for"), Opt(SpHy), Lit("enterprise"), WB>>),
        Cat(<<WB, Lit("dsl"), Opt(SpHy), Lit("business"), Opt(SpHy), Lit("finance"), WB>>),
        Cat(<<WB, Lit("bizcap"), Opt(SpHy), Lit("uk"), WB>>),
        Cat(<<WB, Lit("sigma"), Opt(SpHy), Lit("lending"), WB>>),
        Cat(<<WB, Lit("bizlend"), Opt(SpHy), Lit("ltd"), WB>>),
        Cat(<<WB, Lit("loan"), Opt(SpHy), Lit("repayment"), WB>>),
        Cat(<<WB, Lit("debt"), Opt(SpHy), Lit("repayment"), WB>>),
        Cat(<<WB, Lit("insta"), Opt(Lit("l")), Lit("ment"), Opt(Lit("s")), WB>>),
        Cat(<<WB, Lit("pay"), Plus(SpHy), Lit("back"), WB>>),
        Cat(<<WB, Lit("repay"), Opt(Alt(<<
            Lit("ing"),
            Lit("ment"),
            Lit("ed")>>)), WB>>)>>)

\* src/app.py:307-307
ExpensePattern ==
    Alt(<<
        Lit("facebook"),
        Lit("facebk"),
        Lit("fb.me"),
        Lit("outlook"),
        Lit("office365"),
        Lit("microsoft"),
        Cat(<<Lit("google"), Plus(Sp), Lit("ads")>>),
        Lit("linkedin"),
        Lit("twitter"),
        Lit("adobe"),
        Lit("zoom"),
        Lit("slack"),
        Lit("shopify"),
        Lit("wix"),
        Lit("squarespace"),
        Lit("mailchimp"),
        Lit("hubspot")>>)

\* src/app.py:336-336
LoanValidationPattern ==
    Alt(<<
        Lit("loan"),
        Lit("debt"),
        Lit("repay"),
        Lit("finance"),
        Lit("lending"),
        Lit("credit"),
        Lit("iwoca"),
        Lit("capify"),
        Lit("fundbox")>>)

---------------------------------------------------------------------------
(* Python values.  A JSON value of a transaction is tagged with its type:  *)
(* a str, a list of str, None or a number.  A transaction is a dict: a     *)
(* function whose domain is the set of keys present.                       *)

PyStr(s)   == [t |-> "str", v |-> s]
PyList(xs) == [t |-> "list", v |-> xs]
PyNum(n)   == [t |-> "num", v |-> n]
PyNone     == [t |-> "none"]

\* dict.get(key, default)
Get(d, key, default) == IF key \in DOMAIN d THEN d[key] ELSE default

\* str(v) of a str or of None
Str(v) == IF v.t = "none" THEN "None" ELSE v.v

\* " ".join(map(str, v)) if isinstance(v, list) else str(v); the elements
\* of a list are str.
Coalesce(v) == IF v.t = "list" THEN Join(" ", v.v) ELSE Str(v)

---------------------------------------------------------------------------
(* map_transaction_category                                                *)

MCA_CATEGORIES ==
    {"Income", "Special Inflow", "Loans", "Debt Repayments",
     "Expenses", "Special Outflow", "Failed Payment", "Uncategorised"}

\* What a step of the cascade yields when it does not return.
NoMatch == "NoMatch"

\* The call raised TypeError instead of returning.
TypeError == "TypeError"

NameText(transaction) == Lower(Coalesce(Get(transaction, "name", PyStr(""))))

DescriptionText(transaction) ==
    Lower(Coalesce(Get(transaction, "merchant_name", PyStr(""))))

CategoryText(transaction) ==
    Replace(Strip(Lower(Coalesce(
        Get(transaction, "personal_finance_category.detailed", PyStr(""))))),
        " ", "_")

Amount(transaction) == Get(transaction, "amount", PyNum(0))

CombinedText(transaction) ==
    NameText(transaction) \o " " \o DescriptionText(transaction)

\* amount < 0 and amount > 0 raise TypeError unless amount is a number.
Comparable(amount) == amount.t = "num"

\* Faulty variant: the sign convention reversed.
is_credit_SignReversed(amount) == amount.v > 0

is_credit(amount) == amount.v < 0

\* Faulty variant: a zero amount counted as a debit.
is_debit_ZeroIsDebit(amount) == amount.v >= 0

is_debit(amount) == amount.v > 0

\* Faulty variant: the lender list tested on the wrong side: brands and the loan
\* token on debits, brands and repayment vocabulary on credits.
KeywordOverrides_LenderSidesSwapped(combined_text, credit, debit) ==
    IF credit /\ re_search_ignorecase(ProcessorPattern, combined_text)
    THEN "Income"
    ELSE IF credit /\ re_search(FunderPattern, combined_text)
    THEN (IF re_search(FundingPattern, combined_text) THEN "Loans" ELSE "Income")
    ELSE IF debit /\ re_search(LenderCreditPattern, combined_text)
    THEN "Loans"
    ELSE IF credit /\ re_search(LenderDebitPattern, combined_text)
    THEN "Debt Repayments"
    ELSE NoMatch

\* Faulty variant: the lender list tested before the funder brands.
KeywordOverrides_LenderBeforeFunder(combined_text, credit, debit) ==
    IF credit /\ re_search_ignorecase(ProcessorPattern, combined_text)
    THEN "Income"
    ELSE IF credit /\ re_search(LenderCreditPattern, combined_text)
    THEN "Loans"
    ELSE IF credit /\ re_search(FunderPattern, combined_text)
    THEN (IF re_search(FundingPattern, combined_text) THEN "Loans" ELSE "Income")
    ELSE IF debit /\ re_search(LenderDebitPattern, combined_text)
    THEN "Debt Repayments"
    ELSE NoMatch

\* Step 1: custom keyword overrides.
KeywordOverrides(combined_text, credit, debit) ==
    IF credit /\ re_search_ignorecase(ProcessorPattern, combined_text)
    THEN "Income"
    ELSE IF credit /\ re_search(FunderPattern, combined_text)
    THEN (IF re_search(FundingPattern, combined_text) THEN "Loans" ELSE "Income")
    ELSE IF credit /\ re_search(LenderCreditPattern, combined_text)
    THEN "Loans"
    ELSE IF debit /\ re_search(LenderDebitPattern, combined_text)
    THEN "Debt Repayments"
    ELSE NoMatch

\* Step 1.5: business expense override.
ExpenseOverride(combined_text) ==
    IF re_search_ignorecase(ExpensePattern, combined_text)
    THEN "Expenses" ELSE NoMatch

\* Faulty variant: the cash-advance key mapped like the other transfer_in keys.
plaid_map_CashAdvanceAsInflow ==
    [c \in {"income_wages", "income_other_income"} |-> "Income"]
    @@ [c \in {"income_dividends", "income_interest_earned",
               "income_retirement_pension", "income_unemployment",
               "transfer_in_cash_advances_and_loans",
               "transfer_in_investment_and_retirement_funds",
               "transfer_in_savings", "transfer_in_account_transfer",
               "transfer_in_other_transfer_in", "transfer_in_deposit"}
            |-> "Special Inflow"]
    @@ [c \in {"transfer_out_investment_and_retirement_funds",
               "transfer_out_savings", "transfer_out_other_transfer_out",
               "transfer_out_withdrawal", "transfer_out_account_transfer"}
            |-> "Special Outflow"]
    @@ [c \in {"bank_fees_insufficient_funds", "bank_fees_late_payment"}
            |-> "Failed Payment"]

plaid_map ==
    [c \in {"income_wages", "income_other_income"} |-> "Income"]
    @@ [c \in {"income_dividends", "income_interest_earned",
               "income_retirement_pension", "income_unemployment"}
            |-> "Special Inflow"]
    @@ [c \in {"transfer_in_cash_advances_and_loans"} |-> "Loans"]
    @@ [c \in {"transfer_in_investment_and_retirement_funds",
               "transfer_in_savings", "transfer_in_account_transfer",
               "transfer_in_other_transfer_in", "transfer_in_deposit"}
            |-> "Special Inflow"]
    @@ [c \in {"transfer_out_investment_and_retirement_funds",
               "transfer_out_savings", "transfer_out_other_transfer_out",
               "transfer_out_withdrawal", "transfer_out_account_transfer"}
            |-> "Special Outflow"]
    @@ [c \in {"bank_fees_insufficient_funds", "bank_fees_late_payment"}
            |-> "Failed Payment"]

\* Faulty variant: the loan payment categories trusted without validation.
LoanPaymentCheck_Unvalidated(category, combined_text) ==
    IF StartsWith(category, "loan_payments_") THEN "Debt Repayments" ELSE NoMatch

\* Step 2: the loan payment categories, trusted only with loan vocabulary.
LoanPaymentCheck(category, combined_text) ==
    IF StartsWith(category, "loan_payments_")
        /\ re_search_ignorecase(LoanValidationPattern, combined_text)
    THEN "Debt Repayments" ELSE NoMatch

\* Step 2: match exact key.
ExactMatch(category) ==
    IF category \in DOMAIN plaid_map THEN plaid_map[category] ELSE NoMatch

broad_matchers ==
    <<  <<"Expenses",
          <<"bank_fees_", "entertainment_", "food_and_drink_",
            "general_merchandise_", "general_services_",
            "government_and_non_profit_", "home_improvement_", "medical_",
            "personal_care_", "rent_and_utilities_", "transportation_",
            "travel_">> >>  >>

RECURSIVE BroadFallbackFrom(_, _)
\* Step 3: the first broad matcher, from index i on, with a prefix of category.
BroadFallbackFrom(category, i) ==
    IF i > Len(broad_matchers) THEN NoMatch
    ELSE IF \E j \in DOMAIN broad_matchers[i][2] :
                StartsWith(category, broad_matchers[i][2][j])
    THEN broad_matchers[i][1]
    ELSE BroadFallbackFrom(category, i + 1)

BroadFallback(category) == BroadFallbackFrom(category, 1)

\* Faulty variant: the broad prefixes tested before the exact keys.
PlaidFallback_BroadBeforeExact(category, combined_text) ==
    LET l == LoanPaymentCheck(category, combined_text)
    IN  IF l # NoMatch THEN l
        ELSE LET b == BroadFallback(category)
        IN  IF b # NoMatch THEN b
            ELSE ExactMatch(category)

\* Steps 2 and 3: the Plaid category fallback.
PlaidFallback(category, combined_text) ==
    LET l == LoanPaymentCheck(category, combined_text)
    IN  IF l # NoMatch THEN l
        ELSE LET x == ExactMatch(category)
        IN  IF x # NoMatch THEN x
            ELSE BroadFallback(category)

\* Faulty variant: the American spelling of the default label.
DefaultFallback_Uncategorized(debit) ==
    IF debit THEN "Expenses" ELSE "Uncategorized"

\* Default fallback.
DefaultFallback(debit) == IF debit THEN "Expenses" ELSE "Uncategorised"

\* Faulty variant: the Plaid category fallback tried before the expense override.
map_transaction_category_PlaidBeforeExpense(transaction) ==
    LET combined_text == CombinedText(transaction)
        category == CategoryText(transaction)
        amount == Amount(transaction)
    IN  IF ~Comparable(amount) THEN TypeError
        ELSE LET k == KeywordOverrides(combined_text, is_credit(amount),
                                       is_debit(amount))
             IN IF k # NoMatch THEN k
             ELSE LET p == PlaidFallback(category, combined_text)
             IN IF p # NoMatch THEN p
             ELSE LET e == ExpenseOverride(combined_text)
             IN IF e # NoMatch THEN e
             ELSE DefaultFallback(is_debit(amount))

map_transaction_category(transaction) ==
    LET combined_text == CombinedText(transaction)
        category == CategoryText(transaction)
        amount == Amount(transaction)
    IN  IF ~Comparable(amount) THEN TypeError
        ELSE LET k == KeywordOverrides(combined_text, is_credit(amount),
                                       is_debit(amount))
             IN IF k # NoMatch THEN k
             ELSE LET e == ExpenseOverride(combined_text)
             IN IF e # NoMatch THEN e
             ELSE LET p == PlaidFallback(category, combined_text)
             IN IF p # NoMatch THEN p
             ELSE DefaultFallback(is_debit(amount))

\* categorize_transaction
categorize_transaction(transaction_dict) ==
    map_transaction_category(transaction_dict)

---------------------------------------------------------------------------
(* The inputs: transactions as the JSON export files hold them.            *)

\* Numeric amounts range over -MaxAmount..MaxAmount.
MaxAmount == 1

\* A key the transaction does not hold.
Absent == [t |-> "absent"]

Names ==
    {Absent,
     PyStr("Tesco Stores"),
     PyStr("Stripe Payout"),
     PyStr("IWOCA LTD"),
     PyStr("Capital On Tap"),
     PyStr("Bank loan"),
     PyStr("iwoca stripe"),
     PyStr("YouLend"),
     PyStr("YL II FND 8841"),
     PyStr("You Lend iwoca loan"),
     PyStr("yl ltd payout"),
     PyList(<<"Funding", "Circle">>),
     PyStr("Loan repayment"),
     PyStr("Loan repaid"),
     PyStr("Monthly instalment"),
     PyStr("stripe repayment"),
     PyStr("Facebook Ads"),
     PyStr("Shopify"),
     PyStr("Credit card"),
     PyStr("Boltons Bakery")}

Merchants == {Absent, PyNone, PyStr("Pay-Back Ltd"), PyList(<<"Zoom", "Iwoca">>)}

Categories ==
    {Absent, PyNone, PyStr(""), PyStr(" Income Wages "),
     PyStr("loan_payments_car_payment"), PyStr("transfer_in_unknown"),
     PyList(<<"travel", "flights">>)}
    \cup {PyStr(c) : c \in DOMAIN plaid_map}
    \cup {PyStr(c) : c \in
            {"bank_fees_atm_fees", "entertainment_music", "food_and_drink_coffee",
             "general_merchandise_online", "general_services_accounting",
             "government_and_non_profit_tax", "home_improvement_hardware",
             "medical_dental", "personal_care_gyms", "rent_and_utilities_rent",
             "transportation_taxis", "travel_lodging"}}

Amounts ==
    {Absent, PyNone, PyStr("12.50")} \cup {PyNum(n) : n \in (-MaxAmount)..MaxAmount}

Keys == {"name", "merchant_name", "personal_finance_category.detailed", "amount"}

\* The dict holding the keys whose value is not Absent.
MkTxn(name, merchant_name, category, amount) ==
    LET all == [k \in Keys |->
                    CASE k = "name" -> name
                      [] k = "merchant_name" -> merchant_name
                      [] k = "personal_finance_category.detailed" -> category
                      [] k = "amount" -> amount]
    IN  [k \in {x \in Keys : all[x] # Absent} |-> all[k]]

Transactions ==
    {MkTxn(n, Absent, c, a) : n \in Names, c \in Categories, a \in Amounts}
    \cup {MkTxn(n, m, c, a) :
            n \in {Absent, PyStr("Tesco Stores"), PyStr("Stripe Payout")},
            m \in Merchants,
            c \in {Absent, PyStr("loan_payments_car_payment"),
                   PyStr("income_wages")},
            a \in Amounts}

---------------------------------------------------------------------------
(* The classifier as a state machine: one call of categorize_transaction   *)
(* on a transaction of an input file.                                      *)

NoResult == "NoResult"

Init ==
    /\ txn \in Transactions
    /\ result = NoResult
    /\ pc = "call"
    /\ BatchIdle
    /\ CleanIdle
    /\ ExtractIdle
    /\ FilenameIdle
    /\ DbIdle

\* The call returns a label, or raises.
Call ==
    /\ pc = "call"
    /\ LET r == categorize_transaction(txn)
       IN  /\ result' = r
           /\ pc' = IF r = TypeError THEN "raised" ELSE "returned"
    /\ UNCHANGED txn
    /\ UNCHANGED <<batch_vars, clean_vars, extract_vars, filename_vars, db_vars>>

Next == Call

Spec == Init /\ [][Next]_vars

---------------------------------------------------------------------------
(* The rule cascade as the specification words it: eight rules, each a     *)
(* predicate on the record and a label, in the order 1..8.  The properties *)
(* below are stated with these predicates; map_transaction_category does   *)
(* not use them.                                                           *)

Credit(t) == Comparable(Amount(t)) /\ Amount(t).v < 0

Debit(t) == Comparable(Amount(t)) /\ Amount(t).v > 0

HasProcessorKeyword(t) == re_search(ProcessorPattern, CombinedText(t))

HasFunderKeyword(t) == re_search(FunderPattern, CombinedText(t))

HasFundingToken(t) == re_search(FundingPattern, CombinedText(t))

HasLenderOrLoanKeyword(t) == re_search(LenderCreditPattern, CombinedText(t))

HasLenderOrRepaymentKeyword(t) == re_search(LenderDebitPattern, CombinedText(t))

HasSaasKeyword(t) == re_search(ExpensePattern, CombinedText(t))

HasLoanVocabulary(t) == re_search(LoanValidationPattern, CombinedText(t))

HasLoanPaymentPrefix(t) == StartsWith(CategoryText(t), "loan_payments_")

BroadPrefixes ==
    {"bank_fees_", "entertainment_", "food_and_drink_", "general_merchandise_",
     "general_services_", "government_and_non_profit_", "home_improvement_",
     "medical_", "personal_care_", "rent_and_utilities_", "transportation_",
     "travel_"}

HasBroadPrefix(t) == \E p \in BroadPrefixes : StartsWith(CategoryText(t), p)

\* The fixed mapping table of rule 6, by the groups the specification names.
TableLabel(c) ==
    CASE c \in {"income_wages", "income_other_income"} -> "Income"
      [] c \in {"income_dividends", "income_interest_earned",
                "income_retirement_pension", "income_unemployment"}
            -> "Special Inflow"
      [] c = "transfer_in_cash_advances_and_loans" -> "Loans"
      [] c \in {"bank_fees_insufficient_funds", "bank_fees_late_payment"}
            -> "Failed Payment"
      [] StartsWith(c, "transfer_in_") -> "Special Inflow"
      [] StartsWith(c, "transfer_out_") -> "Special Outflow"
      [] OTHER -> "Unmapped"

TableKeys ==
    {"income_wages", "income_other_income", "income_dividends",
     "income_interest_earned", "income_retirement_pension",
     "income_unemployment", "transfer_in_cash_advances_and_loans",
     "transfer_in_investment_and_retirement_funds", "transfer_in_savings",
     "transfer_in_account_transfer", "transfer_in_other_transfer_in",
     "transfer_in_deposit", "transfer_out_investment_and_retirement_funds",
     "transfer_out_savings", "transfer_out_other_transfer_out",
     "transfer_out_withdrawal", "transfer_out_account_transfer",
     "bank_fees_insufficient_funds", "bank_fees_late_payment"}

Rule1(t) == Credit(t) /\ HasProcessorKeyword(t)
Rule2(t) == Credit(t) /\ HasFunderKeyword(t)
Rule3(t) == Credit(t) /\ HasLenderOrLoanKeyword(t)
Rule4(t) == Debit(t) /\ HasLenderOrRepaymentKeyword(t)
Rule5(t) == HasSaasKeyword(t)
Rule6(t) ==
    \/ CategoryText(t) \in TableKeys
    \/ HasLoanPaymentPrefix(t) /\ HasLoanVocabulary(t)
Rule7(t) == HasBroadPrefix(t)

Rules1to5(t) == Rule1(t) \/ Rule2(t) \/ Rule3(t) \/ Rule4(t) \/ Rule5(t)

RuleTable(t) ==
    << [fires |-> Rule1(t), label |-> "Income"],
       [fires |-> Rule2(t),
        label |-> IF HasFundingToken(t) THEN "Loans" ELSE "Income"],
       [fires |-> Rule3(t), label |-> "Loans"],
       [fires |-> Rule4(t), label |-> "Debt Repayments"],
       [fires |-> Rule5(t), label |-> "Expenses"],
       [fires |-> Rule6(t),
        label |-> IF HasLoanPaymentPrefix(t) THEN "Debt Repayments"
                  ELSE TableLabel(CategoryText(t))],
       [fires |-> Rule7(t), label |-> "Expenses"],
       [fires |-> TRUE,
        label |-> IF Debit(t) THEN "Expenses" ELSE "Uncategorised"] >>

\* The label of the lowest-numbered rule whose predicate is true.
FirstMatchLabel(t) ==
    LET table == RuleTable(t)
        first == CHOOSE i \in DOMAIN table :
                    /\ table[i].fires
                    /\ \A j \in 1..(i - 1) : ~table[j].fires
    IN  table[first].label

\* The number of that rule.
FirstRule(t) ==
    LET table == RuleTable(t)
    IN  CHOOSE i \in DOMAIN table :
            /\ table[i].fires
            /\ \A j \in 1..(i - 1) : ~table[j].fires

Returned == pc = "returned"

---------------------------------------------------------------------------
(* Claims.                                                                 *)

\* C1: a record with a numeric (or absent) amount, whatever its text fields
\* and external category, makes map_transaction_category return, and the
\* value returned is one of the eight labels of MCA_CATEGORIES.
C1_LabelInClosedSet ==
    (pc # "call" /\ Comparable(Amount(txn)))
        => (Returned /\ result \in MCA_CATEGORIES)

C1_Witness ==
    /\ Returned
    /\ "name" \in DOMAIN txn /\ txn["name"].t = "list"
    /\ "personal_finance_category.detailed" \notin DOMAIN txn
    /\ Amount(txn).v < 0
    /\ result \in MCA_CATEGORIES

\* C2: the label returned is the label of the lowest-numbered rule of the
\* eight-rule table whose predicate holds of the record.
C2_FirstMatchingRule ==
    Returned => result = FirstMatchLabel(txn)

\* Two rules hold of the record and the lower-numbered one decided.
C2_Witness ==
    /\ Returned
    /\ Rule5(txn) /\ Rule6(txn) /\ FirstRule(txn) = 5
    /\ TableLabel(CategoryText(txn)) = "Special Inflow"
    /\ result = "Expenses"

\* The record with a malformed amount replaced by 0.
AmountAsZero(t) ==
    IF Comparable(Amount(t)) THEN t
    ELSE [k \in DOMAIN t |-> IF k = "amount" THEN PyNum(0) ELSE t[k]]

\* C3: map_transaction_category never raises: a record whose amount is
\* missing or not a number is labelled as the same record with amount 0 is.
C3_MalformedAmountTreatedAsZero ==
    (pc # "call" /\ ~Comparable(Amount(txn)))
        => (Returned /\ result = map_transaction_category(AmountAsZero(txn)))

\* C4: a credit whose combined text holds a payment-processor keyword is
\* labelled Income, whatever its external category.
C4_ProcessorCreditIsIncome ==
    (Returned /\ Credit(txn) /\ HasProcessorKeyword(txn)) => result = "Income"

C4_Witness ==
    /\ Returned
    /\ Credit(txn)
    /\ re_search(Lit("stripe payout"), CombinedText(txn))
    /\ CategoryText(txn) = "transfer_in_cash_advances_and_loans"
    /\ result = "Income"

\* C5 as claimed: a credit whose text holds a lender brand or the token
\* loan/loans, and no funding token, is labelled Loans.
C5_LenderCreditIsLoans ==
    (Returned /\ Credit(txn) /\ HasLenderOrLoanKeyword(txn)
        /\ ~HasFundingToken(txn))
        => result = "Loans"

\* C5 as amended: a credit whose text holds a lender brand or the token
\* loan/loans, no funding token, no payment-processor keyword and no
\* known-funder keyword is labelled Loans.
C5_LenderCreditIsLoansUnlessOverridden ==
    (Returned /\ Credit(txn) /\ HasLenderOrLoanKeyword(txn)
        /\ ~HasFundingToken(txn)
        /\ ~HasProcessorKeyword(txn) /\ ~HasFunderKeyword(txn))
        => result = "Loans"

C5_Witness ==
    /\ Returned
    /\ Credit(txn)
    /\ re_search(Lit("iwoca"), CombinedText(txn))
    /\ ~HasFundingToken(txn)
    /\ CategoryText(txn) = "income_wages"
    /\ result = "Loans"

\* The repayment vocabulary as the claim lists it, each a whole word.
ClaimedRepaymentVocabulary ==
    Cat(<<WB, Alt(<<
        Lit("loan repayment"),
        Lit("debt repayment"),
        Lit("instalment"),
        Lit("pay back"),
        Lit("repay"),
        Lit("repaying"),
        Lit("repayment"),
        Lit("repaid")>>), WB>>)

\* C6: a debit whose text holds a lender brand or repayment vocabulary (loan
\* repayment, debt repayment, instalment, pay back, repay, repaying,
\* repayment, repaid) is labelled Debt Repayments, whatever its external
\* category and its other keywords.
C6_DebitRepaymentIsDebtRepayments ==
    (Returned /\ Debit(txn)
        /\ (HasLenderOrRepaymentKeyword(txn)
            \/ re_search(ClaimedRepaymentVocabulary, CombinedText(txn))))
        => result = "Debt Repayments"

\* C7: a credit whose text holds a known-funder keyword and no processor
\* keyword is labelled Loans when the text holds a funding token and Income
\* when it does not, a lender brand or the word loan notwithstanding.
C7_FunderCreditSplit ==
    (Returned /\ Credit(txn) /\ HasFunderKeyword(txn)
        /\ ~HasProcessorKeyword(txn))
        => result = (IF HasFundingToken(txn) THEN "Loans" ELSE "Income")

C7_Witness ==
    /\ Returned
    /\ Credit(txn)
    /\ HasFunderKeyword(txn) /\ ~HasProcessorKeyword(txn)
    /\ ~HasFundingToken(txn)
    /\ HasLenderOrLoanKeyword(txn)
    /\ result = "Income"

\* C8: for a record that rules 1-5 do not match and whose external category
\* begins with loan_payments_, the label is Debt Repayments exactly when the
\* text holds loan vocabulary; otherwise it is Expenses for a debit and
\* Uncategorised for any other amount.
C8_LoanPaymentHintValidated ==
    (Returned /\ ~Rules1to5(txn) /\ HasLoanPaymentPrefix(txn))
        => /\ (result = "Debt Repayments") <=> HasLoanVocabulary(txn)
           /\ ~HasLoanVocabulary(txn)
                => result = (IF Debit(txn) THEN "Expenses" ELSE "Uncategorised")

C8_Witness ==
    /\ Returned
    /\ ~Rules1to5(txn)
    /\ HasLoanPaymentPrefix(txn)
    /\ ~HasLoanVocabulary(txn)
    /\ Debit(txn)
    /\ result = "Expenses"

\* C9: for a record that rules 1-5 do not match, an external category equal
\* to a key of the mapping table yields the label the table gives that key,
\* whatever the sign of the amount; the table's keys are the nineteen keys
\* of the specification.
C9_ExactCategoryLabel ==
    /\ DOMAIN plaid_map = TableKeys
    /\ (Returned /\ ~Rules1to5(txn) /\ CategoryText(txn) \in TableKeys)
            => result = TableLabel(CategoryText(txn))

C9_Witness ==
    /\ Returned
    /\ ~Rules1to5(txn)
    /\ Debit(txn)
    /\ CategoryText(txn) = "transfer_in_cash_advances_and_loans"
    /\ result = "Loans"

\* C10: for a record that rules 1-6 do not match, an external category with
\* one of the twelve broad prefixes yields Expenses, whatever the sign of
\* the amount; the exact keys bank_fees_insufficient_funds and
\* bank_fees_late_payment come first and yield Failed Payment.
C10_BroadPrefixIsExpenses ==
    /\ (Returned /\ ~Rules1to5(txn) /\ ~Rule6(txn) /\ HasBroadPrefix(txn))
            => result = "Expenses"
    /\ (Returned /\ ~Rules1to5(txn)
            /\ CategoryText(txn) \in {"bank_fees_insufficient_funds",
                                      "bank_fees_late_payment"})
            => result = "Failed Payment"

C10_Witness ==
    /\ Returned
    /\ ~Rules1to5(txn) /\ ~Rule6(txn)
    /\ Credit(txn)
    /\ StartsWith(CategoryText(txn), "bank_fees_")
    /\ result = "Expenses"

\* A copy of the record under another external category (Absent removes it).
WithCategory(t, c) ==
    LET key == "personal_finance_category.detailed"
    IN  IF c = Absent
        THEN [k \in DOMAIN t \ {key} |-> t[k]]
        ELSE [k \in DOMAIN t \cup {key} |-> IF k = key THEN c ELSE t[k]]

\* C11: when none of rules 1-7 matches, a debit is labelled Expenses and
\* any other record Uncategorised; a record whose amount is exactly 0 is
\* never decided by the sign-dependent rules 1-4, whatever keywords its
\* text holds, and is Uncategorised when rules 5-7 do not match either.
C11_DefaultBySign ==
    /\ (Returned /\ ~Rules1to5(txn) /\ ~Rule6(txn) /\ ~Rule7(txn))
            => result = (IF Debit(txn) THEN "Expenses" ELSE "Uncategorised")
    /\ (Returned /\ Amount(txn).v = 0)
            => /\ KeywordOverrides(CombinedText(txn), is_credit(Amount(txn)),
                                   is_debit(Amount(txn))) = NoMatch
               /\ (~Rule5(txn) /\ ~Rule6(txn) /\ ~Rule7(txn))
                      => result = "Uncategorised"

\* A zero amount whose text holds a lender keyword falls to the default.
C11_Witness ==
    /\ Returned
    /\ "amount" \in DOMAIN txn /\ Amount(txn).v = 0
    /\ HasLenderOrLoanKeyword(txn)
    /\ ~Rule5(txn) /\ ~Rule6(txn) /\ ~Rule7(txn)
    /\ result = "Uncategorised"

\* C12: the label of a record whose text holds a SaaS or advertising
\* keyword is the label of the same record under every other external
\* category (or none), and it is Expenses whenever rules 1-4 do not match,
\* for a debit, a credit and a zero amount alike.
C12_SaasLabelIgnoresCategory ==
    (Returned /\ HasSaasKeyword(txn))
        => /\ \A c \in Categories :
                  categorize_transaction(WithCategory(txn, c)) = result
           /\ (~Rule1(txn) /\ ~Rule2(txn) /\ ~Rule3(txn) /\ ~Rule4(txn))
                  => result = "Expenses"

\* A credit under an inflow category that the SaaS keyword makes Expenses.
C12_Witness ==
    /\ Returned
    /\ HasSaasKeyword(txn)
    /\ Credit(txn)
    /\ TableLabel(CategoryText(txn)) = "Special Inflow"
    /\ result = "Expenses"
    /\ categorize_transaction(WithCategory(txn, Absent)) = "Expenses"

---------------------------------------------------------------------------
(* process_multiple_json_files: the batch over the uploaded files.  A file *)
(* is a name and what json.load makes of it; a transaction is a dict, or   *)
(* any other JSON value.                                                   *)

\* A dict, as opposed to a str, a list, a number or None.
IsDict(x) == "t" \notin DOMAIN x

\* The outcome of an expression that raises.
Raised == [t |-> "raised"]

RECURSIVE ParseNatFrom(_, _, _)
\* int(s) of a string of decimal digits, from index i on, acc read so far.
ParseNatFrom(s, i, acc) ==
    IF i > Len(s) THEN acc
    ELSE ParseNatFrom(s, i + 1,
            acc * 10 + (CHOOSE d \in 0..9 : ToString(d) = CharAt(s, i)))

ParseNat(s) == ParseNatFrom(s, 1, 0)

DaysInMonth(year, month) ==
    IF month \in {4, 6, 9, 11} THEN 30
    ELSE IF month # 2 THEN 31
    ELSE IF year % 4 = 0 /\ (year % 100 # 0 \/ year % 400 = 0) THEN 29
    ELSE 28

\* A string of the form YYYY-MM-DD naming a calendar month and a day.
IsIsoDate(s) ==
    /\ Len(s) = 10
    /\ \A p \in {1, 2, 3, 4, 6, 7, 9, 10} : CharAt(s, p) \in Digits
    /\ CharAt(s, 5) = "-" /\ CharAt(s, 8) = "-"
    /\ ParseNat(SubSeq(s, 6, 7)) \in 1..12
    /\ ParseNat(SubSeq(s, 9, 10))
            \in 1..DaysInMonth(ParseNat(SubSeq(s, 1, 4)), ParseNat(SubSeq(s, 6, 7)))

\* A datetime.date
PyDate(year, month, day) == [t |-> "date", y |-> year, m |-> month, d |-> day]

\* pd.to_datetime(v).date(): the date of an ISO date string; None has no
\* date() and free text does not parse.
to_date(v) ==
    IF v.t = "str" /\ IsIsoDate(v.v)
    THEN PyDate(ParseNat(SubSeq(v.v, 1, 4)), ParseNat(SubSeq(v.v, 6, 7)),
                ParseNat(SubSeq(v.v, 9, 10)))
    ELSE Raised

\* a <= b of two dates
DateLeq(a, b) ==
    \/ a.y < b.y
    \/ a.y = b.y /\ a.m < b.m
    \/ a.y = b.y /\ a.m = b.m /\ a.d <= b.d

DateWarning == "Skipping transaction due to invalid date"

RECURSIVE FilterByDate(_, _, _, _, _)
\* The date filter over the transactions txns[k..]: the txns kept and the
\* warnings given so far, and whether the loop raised: a transaction that
\* is no dict raises in the try block and again in its except clause.
FilterByDate(txns, k, first_day, last_day, acc) ==
    IF k > Len(txns) THEN acc
    ELSE LET t == txns[k]
         IN  IF ~IsDict(t) THEN [acc EXCEPT !.raised = TRUE]
             ELSE LET txn_date == to_date(Get(t, "date", PyNone))
                  IN  IF txn_date = Raised
                      THEN FilterByDate(txns, k + 1, first_day, last_day,
                              [acc EXCEPT !.warned = Append(@, DateWarning)])
                      ELSE IF DateLeq(first_day, txn_date)
                              /\ DateLeq(txn_date, last_day)
                      THEN FilterByDate(txns, k + 1, first_day, last_day,
                              [acc EXCEPT !.kept = Append(@, t)])
                      ELSE FilterByDate(txns, k + 1, first_day, last_day,
                              acc)

NoDateGiven == PyNone

\* The transactions of the file after lines 387-397.
Filtered(txns, first_day, last_day) ==
    IF first_day # NoDateGiven /\ last_day # NoDateGiven
    THEN FilterByDate(txns, 1, first_day, last_day,
                      [kept |-> <<>>, warned |-> <<>>, raised |-> FALSE])
    ELSE [kept |-> txns, warned |-> <<>>, raised |-> FALSE]

\* acct['account_id'] raises on an account without the key.
RoutingRaises(accounts) ==
    \E k \in 1..Len(accounts) : "account_id" \notin DOMAIN accounts[k]

\* routing_data: a later account of the same id overwrites an earlier one.
RoutingData(accounts) ==
    LET ids == {accounts[k]["account_id"] : k \in 1..Len(accounts)}
        last(id) == CHOOSE k \in 1..Len(accounts) :
                        /\ accounts[k]["account_id"] = id
                        /\ \A m \in (k + 1)..Len(accounts) :
                              accounts[m]["account_id"] # id
    IN  [id \in ids |->
            [sort_code |-> Get(accounts[last(id)], "sort_code", PyStr("N/A")),
             account_number |-> Get(accounts[last(id)], "account", PyStr("N/A")),
             account_name |-> Get(accounts[last(id)], "name",
                                  PyStr("Unnamed Account"))]]

\* ", ".join(txn.get('category') or []): a list of str joins, None and the
\* empty list give "", a number cannot be iterated.
OriginalCategory(t) ==
    LET category == Get(t, "category", PyNone)
    IN  IF category.t = "none" THEN PyStr("")
        ELSE IF category.t = "list" THEN PyStr(Join(", ", category.v))
        ELSE Raised

\* The body of the try block of lines 410-446 raises.
RowRaises(t) ==
    \/ ~IsDict(t)
    \/ categorize_transaction(t) = TypeError
    \/ OriginalCategory(t) = Raised

\* Faulty variant: a failed payment flagged as an expense.
Flags_FailedPaymentAsExpense(mca_subcategory) ==
    [is_revenue |-> mca_subcategory \in {"Income", "Special Inflow"},
     is_expense |-> mca_subcategory
                        \in {"Expenses", "Special Outflow", "Failed Payment"},
     is_debt_repayment |-> mca_subcategory \in {"Debt Repayments"},
     is_debt |-> mca_subcategory \in {"Loans"}]

\* The flags of lines 420-423.
Flags(mca_subcategory) ==
    [is_revenue |-> mca_subcategory \in {"Income", "Special Inflow"},
     is_expense |-> mca_subcategory \in {"Expenses", "Special Outflow"},
     is_debt_repayment |-> mca_subcategory \in {"Debt Repayments"},
     is_debt |-> mca_subcategory \in {"Loans"}]

\* The row appended at lines 425-446 (route_info is routing_data's entry
\* for the account, or the empty dict); category_detailed is the column
\* personal_finance_category.detailed.
Row(business_name, filename, t, routing, n) ==
    LET acct_id == Get(t, "account_id", PyStr("unknown"))
        known == acct_id \in DOMAIN routing
        mca_subcategory == categorize_transaction(t)
        flags == Flags(mca_subcategory)
    IN  [business_name |-> business_name,
         filename |-> filename,
         transaction_id |-> Get(t, "transaction_id",
                                PyStr("txn_" \o ToString(n))),
         date |-> Get(t, "date", PyNone),
         name |-> Get(t, "name", PyStr("Unknown Transaction")),
         merchant_name |-> Get(t, "merchant_name", PyStr("")),
         amount |-> Get(t, "amount", PyNone),
         original_category |-> OriginalCategory(t),
         category_detailed |-> Get(t, "personal_finance_category.detailed",
                                   PyStr("")),
         mca_subcategory |-> mca_subcategory,
         account_id |-> acct_id,
         is_authorised_account |-> known,
         sort_code |-> IF known THEN routing[acct_id].sort_code
                       ELSE PyStr("N/A"),
         account_number |-> IF known THEN routing[acct_id].account_number
                            ELSE PyStr("N/A"),
         account_name |-> IF known THEN routing[acct_id].account_name
                          ELSE PyStr("Unnamed Account"),
         is_revenue |-> flags.is_revenue,
         is_expense |-> flags.is_expense,
         is_debt_repayment |-> flags.is_debt_repayment,
         is_debt |-> flags.is_debt,
         selected |-> TRUE]

\* business_name_mappings.get(i, f"Unknown Business {i+1}")
BusinessName(mappings, index) ==
    IF index \in DOMAIN mappings THEN mappings[index]
    ELSE "Unknown Business " \o ToString(index + 1)


\* The inputs of the batch.
MaxFiles == 2
MaxTxns == 2

\* One transaction for each label, and four that raise or are filtered.
Entry(name, category, amount, date, account_id) ==
    ("name" :> PyStr(name)) @@ ("amount" :> amount) @@ ("date" :> date)
    @@ ("account_id" :> PyStr(account_id))
    @@ (IF category = "" THEN <<>>
        ELSE ("personal_finance_category.detailed" :> PyStr(category)))

BatchTransactions ==
    { Entry("Stripe Payout", "", PyNum(-1), PyStr("2024-01-15"), "acc-1")
          @@ ("transaction_id" :> PyStr("t-1"))
          @@ ("category" :> PyList(<<"Transfer", "Credit">>)),
      Entry("IWOCA LTD", "", PyNum(-1), PyStr("2024-01-31"), "acc-1"),
      Entry("IWOCA LTD", "", PyNum(1), PyStr("2024-02-01"), "acc-2"),
      Entry("Tesco Stores", "", PyNum(1), PyStr("2024-01-01"), "acc-1"),
      Entry("Boltons Bakery", "income_dividends", PyNum(-1),
            PyStr("2023-12-31"), "acc-1"),
      Entry("Boltons Bakery", "transfer_out_withdrawal", PyNum(1),
            PyStr("2024-01-15"), "acc-1"),
      Entry("Boltons Bakery", "bank_fees_late_payment", PyNum(1),
            PyStr("2024-01-15"), "acc-1"),
      Entry("Boltons Bakery", "", PyNum(0), PyNone, "acc-1"),
      Entry("Tesco Stores", "", PyNone, PyStr("2024-01-15"), "acc-1"),
      Entry("Tesco Stores", "", PyNum(1), PyStr("15 Jan"), "acc-1")
          @@ ("category" :> PyNum(7)),
      PyStr("not a transaction") }

\* The transactions that follow the first one of a file: one that becomes
\* a row, one whose classification raises, one that is no dict.
LaterTransactions ==
    { Entry("Stripe Payout", "", PyNum(-1), PyStr("2024-01-15"), "acc-1"),
      Entry("Tesco Stores", "", PyNone, PyStr("2024-01-15"), "acc-1"),
      PyStr("not a transaction") }

RECURSIVE ListsUpTo(_, _, _)
\* The lists of at most n elements, the first of First, the others of Later.
ListsUpTo(First, Later, n) ==
    IF n = 0 THEN {<<>>}
    ELSE IF n = 1 THEN {<<>>} \cup {<<x>> : x \in First}
    ELSE LET shorter == ListsUpTo(First, Later, n - 1)
         IN  shorter \cup {Append(l, x) : l \in shorter \ {<<>>}, x \in Later}

Account(account_id, name) ==
    ("account_id" :> PyStr(account_id)) @@ ("name" :> PyStr(name))
    @@ ("sort_code" :> PyStr("20-00-00"))

\* What json.load makes of a file: it raises, or returns a list, or a dict
\* with accounts and transactions.
Unreadable == [t |-> "invalid json"]

FileContents ==
    { Unreadable,
      PyList(<<>>),
      ("transactions" :> <<>>) }
    \cup { ("accounts" :> << ("name" :> PyStr("Acme Ltd Current Account")) >>)
           @@ ("transactions" :> <<t>>) : t \in BatchTransactions }
    \cup { ("accounts" :> << Account("acc-1", "Acme Ltd Current Account") >>)
           @@ ("transactions" :> ts) : ts \in ListsUpTo(BatchTransactions, LaterTransactions, MaxTxns) }

FileName(k) == "export" \o ToString(k) \o ".json"

\* The files that follow the first one of a batch.
LaterContents ==
    { Unreadable }
    \cup { ("accounts" :> << Account("acc-2", "Bolt Savings") >>)
           @@ ("transactions" :> <<t>>) : t \in LaterTransactions }

UploadedFiles ==
    { [k \in 1..Len(cs) |-> [name |-> FileName(k), json_data |-> cs[k]]] :
          cs \in ListsUpTo(FileContents, LaterContents, MaxFiles) }

DateRanges ==
    { <<NoDateGiven, NoDateGiven>>,
      <<PyDate(2024, 1, 1), PyDate(2024, 1, 31)>> }

Mappings == { <<>>, (0 :> "Acme Ltd") }

---------------------------------------------------------------------------
(* process_multiple_json_files as a state machine: file_index is the      *)
(* index i of the file of the outer loop, txn_index the number of         *)
(* transactions of that file the inner loop has gone through.              *)

BatchInit ==
    /\ uploaded_files \in UploadedFiles
    /\ business_name_mappings \in Mappings
    /\ \E range \in DateRanges :
          start_date = range[1] /\ end_date = range[2]
    /\ file_index = 0
    /\ txn_index = 0
    /\ transactions = <<>>
    /\ routing_data = <<>>
    /\ all_business_data = <<>>
    /\ warnings = <<>>
    /\ errors = <<>>
    /\ bpc = "file"
    /\ ClassifierIdle
    /\ CleanIdle
    /\ ExtractIdle
    /\ FilenameIdle
    /\ DbIdle

\* What lines 379-408 make of the file, up to the transaction loop.
Loaded(uploaded_file) ==
    LET json_data == uploaded_file.json_data
        readable == IsDict(json_data)
        accounts == Get(json_data, "accounts", <<>>)
        filtered == Filtered(Get(json_data, "transactions", <<>>),
                             start_date, end_date)
    IN  IF ~readable
        THEN [raised |-> TRUE, warned |-> <<>>, kept |-> <<>>, routing |-> <<>>]
        ELSE IF filtered.raised \/ RoutingRaises(accounts)
        THEN [raised |-> TRUE, warned |-> filtered.warned, kept |-> <<>>,
              routing |-> <<>>]
        ELSE [raised |-> FALSE, warned |-> filtered.warned,
              kept |-> filtered.kept, routing |-> RoutingData(accounts)]

\* The next file is loaded, its transactions filtered, its accounts read.
LoadFile ==
    /\ bpc = "file" /\ file_index < Len(uploaded_files)
    /\ LET l == Loaded(uploaded_files[file_index + 1])
       IN  /\ ~l.raised
           /\ transactions' = l.kept
           /\ routing_data' = l.routing
           /\ warnings' = warnings \o l.warned
    /\ txn_index' = 0
    /\ bpc' = "txn"
    /\ UNCHANGED <<uploaded_files, business_name_mappings, start_date,
                   end_date, file_index,
                   all_business_data, errors>>
    /\ UNCHANGED <<classifier_vars, clean_vars, extract_vars, filename_vars, db_vars>>

\* Loading raises: the except clause of line 450 reports the file and the
\* loop goes on to the next one.
FailFile ==
    /\ bpc = "file" /\ file_index < Len(uploaded_files)
    /\ LET l == Loaded(uploaded_files[file_index + 1])
       IN  /\ l.raised
           /\ warnings' = warnings \o l.warned
    /\ errors' = Append(errors, "Failed to process " \o uploaded_files[file_index + 1].name)
    /\ file_index' = file_index + 1
    /\ UNCHANGED <<uploaded_files, business_name_mappings, start_date,
                   end_date, txn_index,
                   transactions, routing_data, all_business_data, bpc>>
    /\ UNCHANGED <<classifier_vars, clean_vars, extract_vars, filename_vars, db_vars>>

\* One transaction becomes a row.
EmitRow ==
    /\ bpc = "txn" /\ txn_index < Len(transactions)
    /\ ~RowRaises(transactions[txn_index + 1])
    /\ all_business_data' =
            Append(all_business_data,
                   Row(BusinessName(business_name_mappings, file_index),
                       uploaded_files[file_index + 1].name, transactions[txn_index + 1],
                       routing_data, Len(all_business_data)))
    /\ txn_index' = txn_index + 1
    /\ UNCHANGED <<uploaded_files, business_name_mappings, start_date,
                   end_date, file_index,
                   transactions, routing_data, warnings, errors, bpc>>
    /\ UNCHANGED <<classifier_vars, clean_vars, extract_vars, filename_vars, db_vars>>

\* One transaction raises and is skipped with a warning.
SkipTransaction ==
    /\ bpc = "txn" /\ txn_index < Len(transactions)
    /\ RowRaises(transactions[txn_index + 1])
    /\ warnings' = Append(warnings, "Skipping malformed transaction in "
                                        \o uploaded_files[file_index + 1].name)
    /\ txn_index' = txn_index + 1
    /\ UNCHANGED <<uploaded_files, business_name_mappings, start_date,
                   end_date, file_index,
                   transactions, routing_data, all_business_data, errors, bpc>>
    /\ UNCHANGED <<classifier_vars, clean_vars, extract_vars, filename_vars, db_vars>>

\* The transactions of the file are exhausted.
EndFile ==
    /\ bpc = "txn" /\ txn_index = Len(transactions)
    /\ file_index' = file_index + 1
    /\ bpc' = "file"
    /\ UNCHANGED <<uploaded_files, business_name_mappings, start_date,
                   end_date, txn_index,
                   transactions, routing_data, all_business_data, warnings,
                   errors>>
    /\ UNCHANGED <<classifier_vars, clean_vars, extract_vars, filename_vars, db_vars>>

\* return pd.DataFrame(all_business_data)
ReturnBatch ==
    /\ bpc = "file" /\ file_index = Len(uploaded_files)
    /\ bpc' = "returned"
    /\ UNCHANGED <<uploaded_files, business_name_mappings, start_date,
                   end_date, file_index, txn_index,
                   transactions, routing_data, all_business_data, warnings,
                   errors>>
    /\ UNCHANGED <<classifier_vars, clean_vars, extract_vars, filename_vars, db_vars>>

BatchNext ==
    \/ LoadFile
    \/ FailFile
    \/ EmitRow
    \/ SkipTransaction
    \/ EndFile
    \/ ReturnBatch

BatchSpec == BatchInit /\ [][BatchNext]_vars

---------------------------------------------------------------------------
(* Claims about the rows of the batch.                                     *)

\* The rows emitted so far.
Rows == {all_business_data[k] : k \in 1..Len(all_business_data)}

\* The flags of a row that are set.
FlagsSet(row) ==
    {f \in {"is_revenue", "is_expense", "is_debt", "is_debt_repayment"} : row[f]}

\* C13: on every row emitted by process_multiple_json_files each flag is a
\* function of the label alone: is_revenue iff the label is Income or
\* Special Inflow, is_expense iff Expenses or Special Outflow, is_debt iff
\* Loans, is_debt_repayment iff Debt Repayments; so at most one flag is
\* set, and none on a Failed Payment or Uncategorised row.
C13_FlagsFollowLabel ==
    \A row \in Rows :
        /\ row.mca_subcategory \in MCA_CATEGORIES
        /\ row.is_revenue
              <=> row.mca_subcategory \in {"Income", "Special Inflow"}
        /\ row.is_expense
              <=> row.mca_subcategory \in {"Expenses", "Special Outflow"}
        /\ row.is_debt <=> row.mca_subcategory = "Loans"
        /\ row.is_debt_repayment <=> row.mca_subcategory = "Debt Repayments"
        /\ Cardinality(FlagsSet(row)) <= 1
        /\ row.mca_subcategory \in {"Failed Payment", "Uncategorised"}
              => FlagsSet(row) = {}

\* A batch that returned a Failed Payment row without flags and a row with
\* exactly one flag.
C13_Witness ==
    /\ bpc = "returned"
    /\ \E row \in Rows :
          row.mca_subcategory = "Failed Payment" /\ FlagsSet(row) = {}
    /\ \E row \in Rows :
          row.mca_subcategory = "Income" /\ FlagsSet(row) = {"is_revenue"}

---------------------------------------------------------------------------
(* re.sub: the leftmost match first, and at one start the match that the   *)
(* backtracking search of the re module finds first (greedy repetition,    *)
(* alternatives in order).                                                 *)

\* r{n,}
AtLeast(r, n) == [k |-> "min", r |-> r, n |-> n]

\* \d
Digit == OneOf(Digits)

RECURSIVE MatchOrder(_, _, _)
RECURSIVE CatOrder(_, _, _, _)
RECURSIVE CatOver(_, _, _, _, _)
RECURSIVE AltOrder(_, _, _, _)
RECURSIVE RepeatOrder(_, _, _, _)
RECURSIVE RepeatOver(_, _, _, _, _, _)

\* The ends of the matches of r that start at p, in the order in which the
\* search tries them.
MatchOrder(r, s, p) ==
    CASE r.k = "lit" ->
            IF p + Len(r.s) - 1 <= Len(s) /\ SubSeq(s, p, p + Len(r.s) - 1) = r.s
            THEN <<p + Len(r.s)>> ELSE <<>>
      [] r.k = "set" ->
            IF p <= Len(s) /\ CharAt(s, p) \in r.c THEN <<p + 1>> ELSE <<>>
      [] r.k = "wb" -> IF IsWordBoundary(s, p) THEN <<p>> ELSE <<>>
      [] r.k = "opt" -> MatchOrder(r.r, s, p) \o <<p>>
      [] r.k = "star" -> RepeatOrder(r.r, s, p, 0)
      [] r.k = "plus" -> RepeatOrder(r.r, s, p, 1)
      [] r.k = "min" -> RepeatOrder(r.r, s, p, r.n)
      [] r.k = "cat" -> CatOrder(r.rs, 1, s, p)
      [] r.k = "alt" -> AltOrder(r.rs, 1, s, p)

\* rs[n], rs[n+1], ... one after the other, from p.
CatOrder(rs, n, s, p) ==
    IF n > Len(rs) THEN <<p>>
    ELSE CatOver(rs, n, s, MatchOrder(rs[n], s, p), 1)

CatOver(rs, n, s, ends, k) ==
    IF k > Len(ends) THEN <<>>
    ELSE CatOrder(rs, n + 1, s, ends[k]) \o CatOver(rs, n, s, ends, k + 1)

AltOrder(rs, n, s, p) ==
    IF n > Len(rs) THEN <<>>
    ELSE MatchOrder(rs[n], s, p) \o AltOrder(rs, n + 1, s, p)

\* r repeated, at least need times more: one more repetition is tried
\* before stopping.
RepeatOrder(r, s, p, need) ==
    RepeatOver(r, s, p, need, MatchOrder(r, s, p), 1)
        \o (IF need <= 0 THEN <<p>> ELSE <<>>)

RepeatOver(r, s, p, need, ends, k) ==
    IF k > Len(ends) THEN <<>>
    ELSE (IF ends[k] > p THEN RepeatOrder(r, s, ends[k], need - 1) ELSE <<>>)
            \o RepeatOver(r, s, p, need, ends, k + 1)

\* The end of the match of r at p, or 0 when r does not match at p.
MatchEnd(r, s, p) ==
    LET ends == MatchOrder(r, s, p)
    IN  IF ends = <<>> THEN 0 ELSE ends[1]

RECURSIVE SubFrom(_, _, _, _, _)
\* s[p..] with the non-overlapping matches of r, found in text, replaced by
\* repl; text is s or s in lower case.  No pattern of the source matches
\* the empty string.
SubFrom(r, repl, s, text, p) ==
    IF p > Len(s) THEN ""
    ELSE LET e == MatchEnd(r, text, p)
         IN  IF e > p THEN repl \o SubFrom(r, repl, s, text, e)
             ELSE CharAt(s, p) \o SubFrom(r, repl, s, text, p + 1)

\* re.sub(r, repl, s)
re_sub(r, repl, s) == SubFrom(r, repl, s, s, 1)

\* re.sub(r, repl, s, flags=re.IGNORECASE), for a pattern r whose literals
\* are all lower case.
re_sub_ignorecase(r, repl, s) == SubFrom(r, repl, s, Lower(s), 1)

---------------------------------------------------------------------------
(* More of Python's str methods.                                           *)

UpperOf ==
    [c \in LowerLetters |->
        CHOOSE u \in UpperLetters : LowerOf[u] = c]

UpperChar(c) == IF c \in LowerLetters THEN UpperOf[c] ELSE c

\* str.capitalize()
Capitalize(s) ==
    IF s = "" THEN ""
    ELSE UpperChar(CharAt(s, 1)) \o Lower(SubSeq(s, 2, Len(s)))

RECURSIVE LStripCharsFrom(_, _, _)
LStripCharsFrom(s, chars, n) ==
    IF n <= Len(s) /\ CharAt(s, n) \in chars
    THEN LStripCharsFrom(s, chars, n + 1) ELSE n

RECURSIVE RStripCharsTo(_, _, _)
RStripCharsTo(s, chars, n) ==
    IF n >= 1 /\ CharAt(s, n) \in chars
    THEN RStripCharsTo(s, chars, n - 1) ELSE n

\* str.strip(chars)
StripChars(s, chars) ==
    SubSeq(s, LStripCharsFrom(s, chars, 1), RStripCharsTo(s, chars, Len(s)))

RECURSIVE SplitFrom(_, _, _)
\* The words of s[n..], word being the characters of the word that is
\* being read.
SplitFrom(s, n, word) ==
    IF n > Len(s) THEN (IF word = "" THEN <<>> ELSE <<word>>)
    ELSE IF CharAt(s, n) \in Whitespace
    THEN (IF word = "" THEN <<>> ELSE <<word>>) \o SplitFrom(s, n + 1, "")
    ELSE SplitFrom(s, n + 1, word \o CharAt(s, n))

\* str.split()
Split(s) == SplitFrom(s, 1, "")

\* ' '.join(word.capitalize() for word in s.split())
CapitalizeWords(s) ==
    LET words == Split(s)
    IN  Join(" ", [n \in 1..Len(words) |-> Capitalize(words[n])])

---------------------------------------------------------------------------
(* clean_account_name                                                      *)

\* \bw\b
Word(w) == Cat(<<WB, Lit(w), WB>>)

\* \bv\s+w\b
Phrase(v, w) == Cat(<<WB, Lit(v), Plus(Sp), Lit(w), WB>>)

\* src/app.py:84-110, in the order of the list
remove_terms ==
    << Phrase("current", "account"),
       Phrase("business", "account"),
       Phrase("savings", "account"),
       Phrase("checking", "account"),
       Phrase("company", "account"),
       Word("account"),
       Word("current"),
       Word("savings"),
       Word("checking"),
       Word("business"),
       Word("company"),
       Word("bus"),
       Word("curr"),
       Word("acc"),
       Phrase("ltd", "current"),
       Phrase("ltd", "business"),
       Phrase("limited", "current"),
       Phrase("limited", "business"),
       Cat(<<WB, Lit("-"), Star(Sp), Plus(Digit), WB>>),
       Cat(<<Lit("("), Plus(Digit), Lit(")")>>),
       Cat(<<Lit("["), Plus(Digit), Lit("]")>>),
       Cat(<<WB, AtLeast(Digit, 8), WB>>),
       Cat(<<WB, Lit("sort"), Star(Sp), Lit("code"), WB>>),
       Word("iban"),
       Word("swift") >>

\* Faulty variant: only None is taken for a missing name.
Falsy_NoneOnly(v) == v.t = "none"

\* not account_name
Falsy(v) == v.t = "none" \/ (v.t = "str" /\ v.v = "")

\* One pass of the loop of lines 112-113.
RemoveTerm(name, term) == re_sub_ignorecase(term, "", name)

RECURSIVE RemoveTermsFrom(_, _)
\* The loop of lines 112-113 from the n-th term on (the test on removed has
\* TLC evaluate one pass before it starts the next).
RemoveTermsFrom(name, n) ==
    IF n > Len(remove_terms) THEN name
    ELSE LET removed == RemoveTerm(name, remove_terms[n])
         IN  IF Len(removed) >= 0 THEN RemoveTermsFrom(removed, n + 1)
             ELSE removed

\* Lines 116-118: separators to spaces, runs of whitespace to one space,
\* punctuation and spaces off both ends.
Punctuation == {" ", ".", ",", ";", ":", "(", ")", "[", "]", "{", "}"}

CleanUp(name) ==
    StripChars(
        re_sub(Plus(Sp), " ",
            re_sub(Plus(OneOf({"_", "-"})), " ", name)),
        Punctuation)

\* Faulty variant: only an empty result falls back to the original.
Fallback_OnlyWhenEmpty(account_name, name) ==
    IF Len(name) < 1
    THEN CapitalizeWords(Strip(Str(account_name)))
    ELSE name

\* Lines 124-128
Fallback(account_name, name) ==
    IF Len(name) < 2
    THEN CapitalizeWords(Strip(Str(account_name)))
    ELSE name

clean_account_name(account_name) ==
    IF Falsy(account_name) THEN "Unknown Business"
    ELSE Fallback(account_name,
            CapitalizeWords(CleanUp(
                RemoveTermsFrom(Strip(Str(account_name)), 1))))

\* The raw account names: None, the empty string, blank strings, the names
\* of the documentation, and two tokens around a separator.
NameTokens ==
    {"ABC", "Ltd", "Current", "ACCOUNT", "business", "Company", "limited",
     "x", "acc", "12345", "12345678", "(12)", "sort", "code"}

NameSeparators == {" ", "-", " - ", "_"}

RawNames ==
    {PyNone, PyStr(""), PyStr(" "), PyStr(" \t "),
     PyStr("ABC Ltd Current Account"),
     PyStr("XYZ COMPANY BUSINESS ACCOUNT"),
     PyStr("My Restaurant Ltd - 12345"),
     PyStr("COFFEE SHOP LIMITED CURRENT"),
     PyStr("Bound Expenses"),
     PyStr("Business Account"),
     PyStr("  savings   account  "),
     PyStr("Acme Trading [42] (sort code)"),
     PyStr("acme.-"),
     PyStr("IBAN Swift"),
     PyStr("o'neil & sons, {bus}"),
     PyStr("Joe's Cafe 1234-5678-9")}
    \cup {PyStr(v \o sep \o w) :
            v \in NameTokens, sep \in NameSeparators, w \in NameTokens}

---------------------------------------------------------------------------
(* clean_account_name as a state machine: one step for the guard, one for  *)
(* each term of the removal loop, one for each statement after it.         *)

CleanInit ==
    /\ raw \in RawNames
    /\ working_name = ""
    /\ term_index = 0
    /\ cleaned = "NoResult"
    /\ cpc = "start"
    /\ ClassifierIdle
    /\ BatchIdle
    /\ ExtractIdle
    /\ FilenameIdle
    /\ DbIdle

\* Lines 78-79
ReturnUnknown ==
    /\ cpc = "start" /\ Falsy(raw)
    /\ cleaned' = "Unknown Business"
    /\ cpc' = "returned"
    /\ UNCHANGED <<raw, working_name, term_index>>
    /\ UNCHANGED <<classifier_vars, batch_vars, extract_vars, filename_vars, db_vars>>

\* Line 81
StripName ==
    /\ cpc = "start" /\ ~Falsy(raw)
    /\ working_name' = Strip(Str(raw))
    /\ cpc' = "terms"
    /\ UNCHANGED <<raw, term_index, cleaned>>
    /\ UNCHANGED <<classifier_vars, batch_vars, extract_vars, filename_vars, db_vars>>

\* Lines 112-113, one term
ApplyTerm ==
    /\ cpc = "terms" /\ term_index < Len(remove_terms)
    /\ working_name' = RemoveTerm(working_name, remove_terms[term_index + 1])
    /\ term_index' = term_index + 1
    /\ UNCHANGED <<raw, cleaned, cpc>>
    /\ UNCHANGED <<classifier_vars, batch_vars, extract_vars, filename_vars, db_vars>>

\* Lines 116-118
CleanUpName ==
    /\ cpc = "terms" /\ term_index = Len(remove_terms)
    /\ working_name' = CleanUp(working_name)
    /\ cpc' = "capitalize"
    /\ UNCHANGED <<raw, term_index, cleaned>>
    /\ UNCHANGED <<classifier_vars, batch_vars, extract_vars, filename_vars, db_vars>>

\* Line 121
CapitalizeName ==
    /\ cpc = "capitalize"
    /\ working_name' = CapitalizeWords(working_name)
    /\ cpc' = "check"
    /\ UNCHANGED <<raw, term_index, cleaned>>
    /\ UNCHANGED <<classifier_vars, batch_vars, extract_vars, filename_vars, db_vars>>

\* Lines 124-128
ReturnName ==
    /\ cpc = "check"
    /\ cleaned' = Fallback(raw, working_name)
    /\ cpc' = "returned"
    /\ UNCHANGED <<raw, working_name, term_index>>
    /\ UNCHANGED <<classifier_vars, batch_vars, extract_vars, filename_vars, db_vars>>

CleanNext ==
    \/ ReturnUnknown
    \/ StripName
    \/ ApplyTerm
    \/ CleanUpName
    \/ CapitalizeName
    \/ ReturnName

CleanSpec == CleanInit /\ [][CleanNext]_vars

\* The steps compute what the function computes.
CleanStepsAgree ==
    cpc = "returned" => cleaned = clean_account_name(raw)

---------------------------------------------------------------------------
(* Claims about clean_account_name.                                        *)

CleanReturned == cpc = "returned"

\* The literal words of a removal term, in order.
LiteralsOf(term) ==
    LET lits == {n \in 1..Len(term.rs) : term.rs[n].k = "lit"}
    IN  {term.rs[n].s : n \in lits}

\* The n-th removal term is a phrase of several words.
IsPhraseTerm(n) == Cardinality(LiteralsOf(remove_terms[n])) >= 2

\* The m-th removal term is one of the words of the n-th, on its own.
IsWordOfPhrase(m, n) ==
    \E w \in LiteralsOf(remove_terms[n]) : remove_terms[m] = Word(w)

\* Some removal term matches the text.
HasResidualBoilerplate(s) ==
    LET text == Lower(s)
    IN  \E n \in 1..Len(remove_terms), p \in 1..Len(text) :
            MatchEnd(remove_terms[n], text, p) # 0

\* A word as str.capitalize() leaves it: no lower-case letter in front, no
\* upper-case letter after.
IsCapitalized(w) ==
    /\ CharAt(w, 1) \notin LowerLetters
    /\ \A n \in 2..Len(w) : CharAt(w, n) \notin UpperLetters

\* C14: clean_account_name never returns the empty string, whatever the
\* raw name: empty, None, blank, or nothing but boilerplate.
C14_NeverEmpty ==
    CleanReturned => Len(cleaned) >= 1

\* C15: clean_account_name("XYZ COMPANY BUSINESS ACCOUNT") is "Xyz Company".
C15_XyzCompany ==
    (CleanReturned /\ raw = PyStr("XYZ COMPANY BUSINESS ACCOUNT"))
        => cleaned = "Xyz Company"

\* C16: clean_account_name("My Restaurant Ltd - 12345") is
\* "My Restaurant Ltd": the dash and the number after it are removed and
\* no digit is left.
C16_TrailingNumberRemoved ==
    (CleanReturned /\ raw = PyStr("My Restaurant Ltd - 12345"))
        => /\ cleaned = "My Restaurant Ltd"
           /\ \A n \in 1..Len(cleaned) : CharAt(cleaned, n) \notin Digits

\* C17: when the removal loop comes to a phrase of several words, none of
\* the words of the phrase has been removed on its own by an earlier term
\* of the list, so the phrase can still match.
C17_PhrasesBeforeWords ==
    (cpc = "terms" /\ term_index < Len(remove_terms)
        /\ IsPhraseTerm(term_index + 1))
        => \A m \in 1..term_index : ~IsWordOfPhrase(m, term_index + 1)

\* The four phrases of lines 99-102 never match when their turn comes.
LatePhrasesNeverMatch ==
    (cpc = "terms" /\ term_index \in 14..17)
        => RemoveTerm(working_name, remove_terms[term_index + 1]) = working_name

\* Idempotence with the empty result left out.
IdempotentUnlessEmpty ==
    (CleanReturned /\ cleaned # "" /\ ~HasResidualBoilerplate(cleaned))
        => clean_account_name(PyStr(cleaned)) = cleaned

\* C18: cleaning is idempotent on a result in which no removal term
\* matches: clean_account_name of the result is the result.
C18_Idempotent ==
    (CleanReturned /\ ~HasResidualBoilerplate(cleaned))
        => clean_account_name(PyStr(cleaned)) = cleaned

\* C19: when what is left after cleaning has fewer than 2 characters, the
\* value returned is the original input, trimmed, its words separated by
\* one space and each capitalized, with no word removed.
C19_ShortResultFallsBack ==
    (CleanReturned /\ ~Falsy(raw) /\ Len(working_name) < 2)
        => /\ Split(Lower(cleaned)) = Split(Lower(Str(raw)))
           /\ cleaned = Join(" ", Split(cleaned))
           /\ \A n \in 1..Len(Split(cleaned)) : IsCapitalized(Split(cleaned)[n])

\* A name of nothing but boilerplate comes back whole.
C19_Witness ==
    /\ CleanReturned
    /\ raw = PyStr("  savings   account  ")
    /\ working_name = ""
    /\ cleaned = "Savings Account"

\* C20: for the empty string and for None the value returned is
\* "Unknown Business", and no cleaning step is taken.
C20_UnknownBusiness ==
    (CleanReturned /\ (raw = PyNone \/ raw = PyStr("")))
        => /\ cleaned = "Unknown Business"
           /\ term_index = 0
           /\ working_name = ""

C20_Witness ==
    /\ CleanReturned
    /\ raw = PyStr("")
    /\ cleaned = "Unknown Business"
    /\ term_index = 0

---------------------------------------------------------------------------
(* extract_business_name_from_json: the definition of line 515, which      *)
(* replaces the one of line 55 when the module is loaded.  The dict        *)
(* account_info is the sequence of its values in insertion order; the key  *)
(* of a value is its field name.                                           *)

\* The place of the key account_name in the dict, 0 when it is not a key.
KeyIndex(info, key) ==
    IF \E k \in 1..Len(info) : info[k].name = key
    THEN CHOOSE k \in 1..Len(info) : info[k].name = key
    ELSE 0

\* Lines 525-540 with the type and subtype of every account overwriting
\* the ones recorded before.
Grouped_LastTypeWins(info, account) ==
    LET account_id == Get(account, "account_id", PyStr(""))
        account_name == Get(account, "name", PyStr("Unknown Account"))
        account_type == Get(account, "type", PyStr(""))
        account_subtype == Get(account, "subtype", PyStr(""))
        k == KeyIndex(info, account_name)
    IN  IF k = 0
        THEN Append(info, [name |-> account_name, type |-> account_type,
                           subtype |-> account_subtype, count |-> 1,
                           account_ids |-> <<account_id>>])
        ELSE [info EXCEPT ![k].count = @ + 1,
                          ![k].type = account_type,
                          ![k].subtype = account_subtype,
                          ![k].account_ids = Append(@, account_id)]

\* Lines 525-540: one account is added to account_info.
Grouped(info, account) ==
    LET account_id == Get(account, "account_id", PyStr(""))
        account_name == Get(account, "name", PyStr("Unknown Account"))
        account_type == Get(account, "type", PyStr(""))
        account_subtype == Get(account, "subtype", PyStr(""))
        k == KeyIndex(info, account_name)
    IN  IF k = 0
        THEN Append(info, [name |-> account_name, type |-> account_type,
                           subtype |-> account_subtype, count |-> 1,
                           account_ids |-> <<account_id>>])
        ELSE [info EXCEPT ![k].count = @ + 1,
                          ![k].account_ids = Append(@, account_id)]

\* list(account_info.keys())
KeysOf(info) == [k \in 1..Len(info) |-> info[k].name]

\* json_data.get('accounts', [])
AccountsOf(data) == Get(data, "accounts", PyList(<<>>))

\* not accounts
NoAccounts(accounts) == accounts = PyNone \/ accounts = PyList(<<>>)

\* The sentinel without the file name in it.
UnknownBusinessOf_WithoutFile(name) == "Unknown Business"

\* The f-string of line 520.
UnknownBusinessOf(name) == "Unknown Business (" \o name \o ")"

MaxAccounts == 3

\* An account of the file; Absent stands for a key the account does not hold.
AccountEntry(account_id, name, type, subtype) ==
    LET all == [k \in {"account_id", "name", "type", "subtype"} |->
                    CASE k = "account_id" -> account_id
                      [] k = "name" -> name
                      [] k = "type" -> type
                      [] k = "subtype" -> subtype]
    IN  [k \in {x \in DOMAIN all : all[x] # Absent} |-> all[k]]

\* The first account of a file: every shape of an account, and a value
\* that is no dict.
FirstAccounts ==
    { AccountEntry(id, name, kind[1], kind[2]) :
          id \in {Absent, PyStr("acc-1")},
          name \in {Absent, PyNone, PyStr("Acme Ltd Current Account"),
                    PyStr("Bolt Savings")},
          kind \in {<<Absent, Absent>>,
                    <<PyStr("depository"), PyStr("checking")>>} }
    \cup { PyStr("not an account") }

\* The accounts that follow it.
LaterAccounts ==
    { AccountEntry(PyStr("acc-2"), PyStr("Acme Ltd Current Account"),
                   PyStr("credit"), PyStr("credit card")),
      AccountEntry(PyStr("acc-1"), PyStr("Acme Ltd Current Account"),
                   PyStr("depository"), PyStr("checking")),
      AccountEntry(PyStr("acc-3"), PyStr("Bolt Savings"),
                   PyStr("depository"), PyStr("savings")),
      AccountEntry(PyStr("acc-4"), Absent, PyStr("depository"), PyStr("checking")),
      PyStr("not an account") }

ExtractInputs ==
    { <<>>, ("accounts" :> PyNone), ("transactions" :> <<>>) }
    \cup { ("accounts" :> PyList(accounts)) :
              accounts \in ListsUpTo(FirstAccounts, LaterAccounts, MaxAccounts) }

ExtractInit ==
    /\ extract_json \in ExtractInputs
    /\ extract_filename \in {"", FileName(1)}
    /\ account_index = 0
    /\ account_info = <<>>
    /\ extraction = "NoResult"
    /\ epc = "start"
    /\ ClassifierIdle
    /\ BatchIdle
    /\ CleanIdle
    /\ FilenameIdle
    /\ DbIdle

\* Lines 519-520
ReturnSentinel ==
    /\ epc = "start" /\ NoAccounts(AccountsOf(extract_json))
    /\ extraction' = [name |-> UnknownBusinessOf(extract_filename),
                      options |-> <<>>, info |-> <<>>]
    /\ epc' = "returned"
    /\ UNCHANGED <<extract_json, extract_filename, account_index, account_info>>
    /\ UNCHANGED <<classifier_vars, batch_vars, clean_vars, filename_vars, db_vars>>

\* Lines 523-524: the loop is entered.
StartGrouping ==
    /\ epc = "start" /\ ~NoAccounts(AccountsOf(extract_json))
    /\ epc' = "loop"
    /\ UNCHANGED <<extract_json, extract_filename, account_index, account_info,
                   extraction>>
    /\ UNCHANGED <<classifier_vars, batch_vars, clean_vars, filename_vars, db_vars>>

\* Lines 524-540: one turn of the loop.
GroupAccount ==
    /\ epc = "loop" /\ account_index < Len(AccountsOf(extract_json).v)
    /\ IsDict(AccountsOf(extract_json).v[account_index + 1])
    /\ account_info' =
           Grouped(account_info, AccountsOf(extract_json).v[account_index + 1])
    /\ account_index' = account_index + 1
    /\ UNCHANGED <<extract_json, extract_filename, extraction, epc>>
    /\ UNCHANGED <<classifier_vars, batch_vars, clean_vars, filename_vars, db_vars>>

\* Line 525: account.get of a value that is no dict raises AttributeError.
RaiseOnAccount ==
    /\ epc = "loop" /\ account_index < Len(AccountsOf(extract_json).v)
    /\ ~IsDict(AccountsOf(extract_json).v[account_index + 1])
    /\ extraction' = Raised
    /\ epc' = "raised"
    /\ UNCHANGED <<extract_json, extract_filename, account_index, account_info>>
    /\ UNCHANGED <<classifier_vars, batch_vars, clean_vars, filename_vars, db_vars>>

\* Lines 542-549: both branches return the same value.
ReturnExtraction ==
    /\ epc = "loop" /\ account_index = Len(AccountsOf(extract_json).v)
    /\ extraction' = [name |-> clean_account_name(KeysOf(account_info)[1]),
                      options |-> KeysOf(account_info),
                      info |-> account_info]
    /\ epc' = "returned"
    /\ UNCHANGED <<extract_json, extract_filename, account_index, account_info>>
    /\ UNCHANGED <<classifier_vars, batch_vars, clean_vars, filename_vars, db_vars>>

ExtractNext ==
    \/ ReturnSentinel
    \/ StartGrouping
    \/ GroupAccount
    \/ RaiseOnAccount
    \/ ReturnExtraction

ExtractSpec == ExtractInit /\ [][ExtractNext]_vars

---------------------------------------------------------------------------
(* extract_business_name_from_filename                                     *)

\* str.rfind(c), counted from 1; 0 when c is not in s.
RFind(s, c) ==
    IF \E k \in 1..Len(s) : CharAt(s, k) = c
    THEN CHOOSE k \in 1..Len(s) :
            CharAt(s, k) = c /\ \A m \in (k + 1)..Len(s) : CharAt(s, m) # c
    ELSE 0

\* os.path.splitext(filename)[0]: the extension starts at the last dot of
\* the last path component, unless only dots come before it there.
SplitExtRoot(filename) ==
    LET sepIndex == RFind(filename, "/")
        dotIndex == RFind(filename, ".")
    IN  IF /\ dotIndex > sepIndex
           /\ \E k \in (sepIndex + 1)..(dotIndex - 1) : CharAt(filename, k) # "."
        THEN SubSeq(filename, 1, dotIndex - 1)
        ELSE filename

\* [-_]+
SeparatorPattern == Plus(OneOf({"-", "_"}))

\* \b(transactions?|data|export|statement|bank|account)\b
VocabularyPattern ==
    Cat(<<WB,
          Alt(<<Cat(<<Lit("transaction"), Opt(Lit("s"))>>), Lit("data"),
                Lit("export"), Lit("statement"), Lit("bank"), Lit("account")>>),
          WB>>)

\* \b\d{4}(-\d{1,2})?(-\d{1,2})?\b
DatePattern ==
    Cat(<<WB, Digit, Digit, Digit, Digit,
          Opt(Cat(<<Lit("-"), Digit, Opt(Digit)>>)),
          Opt(Cat(<<Lit("-"), Digit, Opt(Digit)>>)),
          WB>>)

\* \b(jan|feb|...|december)\b
MonthPattern ==
    Cat(<<WB,
          Alt(<<Lit("jan"), Lit("feb"), Lit("mar"), Lit("apr"), Lit("may"),
                Lit("jun"), Lit("jul"), Lit("aug"), Lit("sep"), Lit("oct"),
                Lit("nov"), Lit("dec"), Lit("january"), Lit("february"),
                Lit("march"), Lit("april"), Lit("may"), Lit("june"),
                Lit("july"), Lit("august"), Lit("september"), Lit("october"),
                Lit("november"), Lit("december")>>),
          WB>>)

\* ' '.join(name.split()).strip()
CollapseSpaces(name) == Strip(Join(" ", Split(name)))

\* The file identifiers: a stem, a separator, a date or month token and an
\* extension.
Stems == {"", "acme", "Bolt Ltd", "bank_export"}

StemSeparators == {"_", "-", " "}

DateTokens ==
    {"", "2024", "2024-01", "2024-01-15", "2024-1-5", "20240115", "jan",
     "15-01-2024", "march"}

Extensions == {"", ".json", ".v2.json"}

FileIdentifiers ==
    { stem \o sep \o token \o ext :
          stem \in Stems, sep \in StemSeparators, token \in DateTokens,
          ext \in Extensions }
    \cup {"", ".json", "uploads/acme", "my.uploads/acme_2024"}

FilenameInit ==
    /\ file_identifier \in FileIdentifiers
    /\ fname = ""
    /\ derived = "NoResult"
    /\ fpc = "start"
    /\ ClassifierIdle
    /\ BatchIdle
    /\ CleanIdle
    /\ ExtractIdle
    /\ DbIdle

\* Line 133
RemoveExtension ==
    /\ fpc = "start"
    /\ fname' = SplitExtRoot(file_identifier)
    /\ fpc' = "separators"
    /\ UNCHANGED <<file_identifier, derived>>
    /\ UNCHANGED <<classifier_vars, batch_vars, clean_vars, extract_vars, db_vars>>

\* Line 136
ReplaceSeparators ==
    /\ fpc = "separators"
    /\ fname' = re_sub(SeparatorPattern, " ", fname)
    /\ fpc' = "vocabulary"
    /\ UNCHANGED <<file_identifier, derived>>
    /\ UNCHANGED <<classifier_vars, batch_vars, clean_vars, extract_vars, db_vars>>

\* Line 139
RemoveVocabulary ==
    /\ fpc = "vocabulary"
    /\ fname' = re_sub_ignorecase(VocabularyPattern, "", fname)
    /\ fpc' = "dates"
    /\ UNCHANGED <<file_identifier, derived>>
    /\ UNCHANGED <<classifier_vars, batch_vars, clean_vars, extract_vars, db_vars>>

\* Line 142
RemoveDates ==
    /\ fpc = "dates"
    /\ fname' = re_sub(DatePattern, "", fname)
    /\ fpc' = "months"
    /\ UNCHANGED <<file_identifier, derived>>
    /\ UNCHANGED <<classifier_vars, batch_vars, clean_vars, extract_vars, db_vars>>

\* Line 145
RemoveMonths ==
    /\ fpc = "months"
    /\ fname' = re_sub_ignorecase(MonthPattern, "", fname)
    /\ fpc' = "spaces"
    /\ UNCHANGED <<file_identifier, derived>>
    /\ UNCHANGED <<classifier_vars, batch_vars, clean_vars, extract_vars, db_vars>>

\* Lines 148-149
TidyName ==
    /\ fpc = "spaces"
    /\ fname' = CapitalizeWords(CollapseSpaces(fname))
    /\ fpc' = "return"
    /\ UNCHANGED <<file_identifier, derived>>
    /\ UNCHANGED <<classifier_vars, batch_vars, clean_vars, extract_vars, db_vars>>

\* Line 151
ReturnDerived ==
    /\ fpc = "return"
    /\ derived' = IF fname # "" THEN fname ELSE "Unknown Business"
    /\ fpc' = "returned"
    /\ UNCHANGED <<file_identifier, fname>>
    /\ UNCHANGED <<classifier_vars, batch_vars, clean_vars, extract_vars, db_vars>>

FilenameNext ==
    \/ RemoveExtension
    \/ ReplaceSeparators
    \/ RemoveVocabulary
    \/ RemoveDates
    \/ RemoveMonths
    \/ TidyName
    \/ ReturnDerived

FilenameSpec == FilenameInit /\ [][FilenameNext]_vars

---------------------------------------------------------------------------
(* The database: add_or_update_business and save_processing_history.  Each *)
(* call opens its own connection and commits once at its end, and SQLite   *)
(* lets one writer in at a time, so a call is one step.                    *)

\* datetime.now().isoformat(): a later call reads a later time.
CurrentTime == Len(calls) + 1

\* Lines 172-183 with INSERT OR REPLACE in place of UPDATE and INSERT.
Upserted_ReplacesRow(rows, seq, name, processing_percentage, current_time) ==
    {row \in rows : row.name # name}
        \cup {[id |-> seq + 1, name |-> name,
               processing_percentage |-> processing_percentage,
               created_date |-> current_time, updated_date |-> current_time]}

\* Lines 172-183: the UPDATE of the row of that name and, when it changed
\* no row (cursor.rowcount == 0), the INSERT of a new row, whose id is the
\* next of the AUTOINCREMENT sequence.
Upserted(rows, seq, name, processing_percentage, current_time) ==
    IF \E row \in rows : row.name = name
    THEN {IF row.name = name
          THEN [row EXCEPT !.processing_percentage = processing_percentage,
                           !.updated_date = current_time]
          ELSE row : row \in rows}
    ELSE rows \cup {[id |-> seq + 1, name |-> name,
                     processing_percentage |-> processing_percentage,
                     created_date |-> current_time,
                     updated_date |-> current_time]}

\* Lines 186-187: SELECT id FROM businesses WHERE name = ?
BusinessId(rows, name) == (CHOOSE row \in rows : row.name = name).id

\* Lines 200-210 without the DELETE.
Saved_WithoutDelete(rows, seq, record) == rows \cup {[record EXCEPT !.id = seq + 1]}

\* Lines 200-210: the DELETE of the records of the same business, date and
\* period, and the INSERT of the new record.
Saved(rows, seq, record) ==
    {row \in rows : ~(/\ row.business_id = record.business_id
                      /\ row.date = record.date
                      /\ row.period_start = record.period_start
                      /\ row.period_end = record.period_end)}
        \cup {[record EXCEPT !.id = seq + 1]}

\* The calls made in a run, and their arguments.
MaxCalls == 3

BusinessNames == {"Acme Ltd", "acme ltd"}

Percentages == {0, 10}

BusinessIds == {1, 2}

ProcessingDates == {"2026-01-05", "2026-01-06"}

Periods == {<<"2024-01-01", "2024-01-31">>, <<"2024-02-01", "2024-02-29">>}

IncomeAmounts == {100, 200}

DbInit ==
    /\ businesses = {}
    /\ businesses_seq = 0
    /\ processing_history = {}
    /\ history_seq = 0
    /\ calls = <<>>
    /\ ClassifierIdle
    /\ BatchIdle
    /\ CleanIdle
    /\ ExtractIdle
    /\ FilenameIdle

\* Lines 164-191
add_or_update_business ==
    /\ Len(calls) < MaxCalls
    /\ \E name \in BusinessNames, processing_percentage \in Percentages :
          LET rows == Upserted(businesses, businesses_seq, name,
                               processing_percentage, CurrentTime)
          IN  /\ businesses' = rows
              /\ businesses_seq' =
                     IF \E row \in businesses : row.name = name
                     THEN businesses_seq ELSE businesses_seq + 1
              /\ calls' = Append(calls,
                     [op |-> "add_or_update_business", name |-> name,
                      processing_percentage |-> processing_percentage,
                      current_time |-> CurrentTime,
                      returned |-> BusinessId(rows, name)])
    /\ UNCHANGED <<processing_history, history_seq>>
    /\ UNCHANGED <<classifier_vars, batch_vars, clean_vars, extract_vars,
                   filename_vars>>

\* Lines 193-213
save_processing_history ==
    /\ Len(calls) < MaxCalls
    /\ \E business_id \in BusinessIds, date \in ProcessingDates,
          period \in Periods, income_amount \in IncomeAmounts :
          LET record == [id |-> 0, business_id |-> business_id, date |-> date,
                         income_amount |-> income_amount,
                         processing_amount |-> income_amount \div 10,
                         period_start |-> period[1], period_end |-> period[2]]
          IN  /\ processing_history' = Saved(processing_history, history_seq, record)
              /\ history_seq' = history_seq + 1
              /\ calls' = Append(calls,
                     [op |-> "save_processing_history", record |-> record])
    /\ UNCHANGED <<businesses, businesses_seq>>
    /\ UNCHANGED <<classifier_vars, batch_vars, clean_vars, extract_vars,
                   filename_vars>>

DbNext ==
    \/ add_or_update_business
    \/ save_processing_history

DbSpec == DbInit /\ [][DbNext]_vars

---------------------------------------------------------------------------
(* Claims about extract_business_name_from_json.                           *)

ExtractReturned == epc = "returned"

\* The accounts handed over, and what an account says of itself.
GivenAccounts ==
    IF NoAccounts(AccountsOf(extract_json)) THEN <<>>
    ELSE AccountsOf(extract_json).v

RawNameOf(account) ==
    IF "name" \in DOMAIN account THEN account["name"]
    ELSE PyStr("Unknown Account")

FieldOf(account, key) ==
    IF key \in DOMAIN account THEN account[key] ELSE PyStr("")

\* The places of the accounts with the raw name n, and the first of them.
PlacesOf(n) ==
    {k \in 1..Len(GivenAccounts) : RawNameOf(GivenAccounts[k]) = n}

FirstPlaceOf(n) == CHOOSE k \in PlacesOf(n) : \A m \in PlacesOf(n) : k <= m

RawNamesGiven == {RawNameOf(GivenAccounts[k]) : k \in 1..Len(GivenAccounts)}

\* The account IDs of the accounts with the raw name n, in their order.
IdsOf(n) ==
    LET places == SelectSeq([k \in 1..Len(GivenAccounts) |-> k],
                            LAMBDA k : k \in PlacesOf(n))
    IN  [i \in 1..Len(places) |-> FieldOf(GivenAccounts[places[i]], "account_id")]

\* The options are the distinct raw names, each once, in first-appearance
\* order, and the suggestion is the cleaned first of them.
OptionsAndSuggestion ==
    LET options == extraction.options
    IN  /\ {options[i] : i \in 1..Len(options)} = RawNamesGiven
        /\ \A i, j \in 1..Len(options) :
              i < j => FirstPlaceOf(options[i]) < FirstPlaceOf(options[j])
        /\ extraction.name = clean_account_name(RawNameOf(GivenAccounts[1]))

\* The detail map has one entry for each distinct raw name, with the number
\* of its accounts and their IDs; the counts add up to the number of accounts.
RECURSIVE SumCounts(_, _)
SumCounts(info, k) ==
    IF k > Len(info) THEN 0 ELSE info[k].count + SumCounts(info, k + 1)

CountsAndIds ==
    LET info == extraction.info
    IN  /\ Len(info) = Cardinality(RawNamesGiven)
        /\ \A n \in RawNamesGiven :
              \E k \in 1..Len(info) :
                  /\ info[k].name = n
                  /\ info[k].count = Cardinality(PlacesOf(n))
                  /\ info[k].account_ids = IdsOf(n)
                  /\ info[k].count = Len(info[k].account_ids)
        /\ SumCounts(info, 1) = Len(GivenAccounts)

\* The entry of a raw name holds the type and subtype of every account
\* with that name.
TypesOfAll ==
    \A k \in 1..Len(extraction.info) :
        \A m \in PlacesOf(extraction.info[k].name) :
            /\ extraction.info[k].type = FieldOf(GivenAccounts[m], "type")
            /\ extraction.info[k].subtype = FieldOf(GivenAccounts[m], "subtype")

\* The entry of a raw name holds the type and subtype of the first account
\* with that name.
TypesOfFirst ==
    \A k \in 1..Len(extraction.info) :
        LET m == FirstPlaceOf(extraction.info[k].name)
        IN  /\ extraction.info[k].type = FieldOf(GivenAccounts[m], "type")
            /\ extraction.info[k].subtype = FieldOf(GivenAccounts[m], "subtype")

\* C21 as stated: for a non-empty account list the options are the distinct
\* raw names in first-appearance order, the suggestion is the cleaned first
\* raw name, and the detail map records for each raw name the number of its
\* accounts and the IDs, types and subtypes of all of them.
C21_GroupsByRawName ==
    (ExtractReturned /\ GivenAccounts # <<>>) =>
        OptionsAndSuggestion /\ CountsAndIds /\ TypesOfAll

\* C21, amended: as above, but the detail map records the type and subtype
\* of the first account with each raw name, and the IDs of all of them.
C21_GroupsByRawNameFirstType ==
    (ExtractReturned /\ GivenAccounts # <<>>) =>
        OptionsAndSuggestion /\ CountsAndIds /\ TypesOfFirst

\* Two raw names are returned, and two accounts of one name differ in type.
C21_Witness ==
    /\ ExtractReturned /\ Len(extraction.options) = 2
    /\ \E k \in 1..Len(extraction.info) :
          /\ extraction.info[k].count = 2
          /\ \E m \in PlacesOf(extraction.info[k].name) :
                extraction.info[k].type # FieldOf(GivenAccounts[m], "type")

\* C22: when the account list is empty or missing, the result is the
\* sentinel name "Unknown Business (<file identifier>)", an empty options
\* list and an empty detail map.
C22_SentinelForNoAccounts ==
    (/\ ExtractReturned
     /\ \/ "accounts" \notin DOMAIN extract_json
        \/ extract_json["accounts"] = PyList(<<>>)) =>
        /\ DOMAIN extraction = {"name", "options", "info"}
        /\ extraction.name = "Unknown Business (" \o extract_filename \o ")"
        /\ extraction.options = <<>>
        /\ extraction.info = <<>>

\* The call returned for a file of a known name that holds an empty list.
C22_Witness ==
    /\ ExtractReturned
    /\ "accounts" \in DOMAIN extract_json
    /\ extract_json["accounts"] = PyList(<<>>)
    /\ extraction.name = "Unknown Business (export1.json)"

---------------------------------------------------------------------------
(* Claims about extract_business_name_from_filename.                       *)

FilenameReturned == fpc = "returned"

HasDigit(s) == \E k \in 1..Len(s) : CharAt(s, k) \in Digits

\* A date of the form YYYY, YYYY-MM or YYYY-MM-DD.
IsDateToken(s) ==
    /\ Len(s) \in {4, 7, 10}
    /\ \A k \in 1..Len(s) :
          IF k \in {5, 8} THEN CharAt(s, k) = "-" ELSE CharAt(s, k) \in Digits

\* s holds one such date, set off from the text around it, and no other
\* digit.
HoldsOneDate(s) ==
    \E i, j \in 1..Len(s) :
        /\ i <= j /\ IsDateToken(SubSeq(s, i, j))
        /\ ~HasDigit(SubSeq(s, 1, i - 1)) /\ ~HasDigit(SubSeq(s, j + 1, Len(s)))
        /\ i = 1 \/ CharAt(s, i - 1) \in {"_", "-", " ", "/"}
        /\ j = Len(s) \/ CharAt(s, j + 1) \in {"_", "-", " ", "."}

\* C23: a file identifier that contains a date YYYY, YYYY-MM or YYYY-MM-DD
\* yields a name with no digit of the date left, and the function returns
\* "Unknown Business" when nothing remains of the name.
C23_DatesStripped ==
    FilenameReturned =>
        /\ HoldsOneDate(file_identifier) => ~HasDigit(derived)
        /\ fname = "" => derived = "Unknown Business"

\* The second half of C23 alone: nothing remains, and the sentinel is
\* returned; otherwise what remains is returned.
SentinelWhenNothingRemains ==
    FilenameReturned =>
        /\ fname = "" => derived = "Unknown Business"
        /\ fname # "" => derived = fname

\* A lone year is removed whole.
YearStripped ==
    (FilenameReturned /\ HoldsOneDate(file_identifier)
        /\ \E i \in 1..(Len(file_identifier) - 3) :
              IsDateToken(SubSeq(file_identifier, i, i + 3))
              /\ (i + 4 > Len(file_identifier)
                    \/ CharAt(file_identifier, i + 4) # "-"))
        => ~HasDigit(derived)

---------------------------------------------------------------------------
(* Claims about the containment of failures in process_multiple_json_files. *)

BatchReturned == bpc = "returned"

DateRangeGiven == start_date # NoDateGiven /\ end_date # NoDateGiven

\* The file k can be loaded: its JSON is a dict whose accounts all have an
\* account_id.
Loadable(k) ==
    /\ IsDict(uploaded_files[k].json_data)
    /\ LET accounts == Get(uploaded_files[k].json_data, "accounts", <<>>)
       IN  \A a \in 1..Len(accounts) : "account_id" \in DOMAIN accounts[a]

GivenTransactions(k) == Get(uploaded_files[k].json_data, "transactions", <<>>)

\* The date of t can be parsed.
DateParses(t) == IsDict(t) /\ to_date(Get(t, "date", PyNone)) # Raised

\* The transaction m of file k is to be skipped with a warning: its date
\* cannot be parsed when a date range is given, or its row raises.
ToBeSkipped(k, m) ==
    LET t == GivenTransactions(k)[m]
    IN  IF DateRangeGiven THEN ~DateParses(t) \/ RowRaises(t)
        ELSE RowRaises(t)

\* The transaction lies in the date range, when one is given.
InDateRange(k, m) ==
    LET t == GivenTransactions(k)[m]
    IN  DateRangeGiven =>
            /\ DateParses(t)
            /\ DateLeq(start_date, to_date(Get(t, "date", PyNone)))
            /\ DateLeq(to_date(Get(t, "date", PyNone)), end_date)

RECURSIVE ToBeEmittedFrom(_, _)
\* The transactions that are to become rows, each as <<file, place>>, from
\* the transaction m of file k on.
ToBeEmittedFrom(k, m) ==
    IF k > Len(uploaded_files) THEN <<>>
    ELSE IF ~Loadable(k) \/ m > Len(GivenTransactions(k))
    THEN ToBeEmittedFrom(k + 1, 1)
    ELSE (IF ~ToBeSkipped(k, m) /\ InDateRange(k, m) THEN << <<k, m>> >>
          ELSE <<>>)
         \o ToBeEmittedFrom(k, m + 1)

ToBeEmitted == ToBeEmittedFrom(1, 1)

\* The number of transactions of loadable files that are to be skipped.
SkippedCount ==
    Cardinality({km \in {<<k, m>> : k \in 1..MaxFiles + 1, m \in 1..MaxTxns + 1} :
                    /\ km[1] <= Len(uploaded_files) /\ Loadable(km[1])
                    /\ km[2] <= Len(GivenTransactions(km[1]))
                    /\ ToBeSkipped(km[1], km[2])})

\* The row n is the row of the transaction m of file k.
RowOf(n, k, m) ==
    LET row == all_business_data[n]
        t == GivenTransactions(k)[m]
    IN  /\ row.filename = uploaded_files[k].name
        /\ row.business_name = BusinessName(business_name_mappings, k - 1)
        /\ row.name = Get(t, "name", PyStr("Unknown Transaction"))
        /\ row.amount = Get(t, "amount", PyNone)
        /\ row.date = Get(t, "date", PyNone)

Contained ==
    /\ Len(all_business_data) = Len(ToBeEmitted)
    /\ \A n \in 1..Len(all_business_data) :
          n <= Len(ToBeEmitted) => RowOf(n, ToBeEmitted[n][1], ToBeEmitted[n][2])
    /\ Len(warnings) >= SkippedCount

\* C24: a transaction whose row raises, or whose date cannot be parsed when
\* a date range is given, is skipped with a warning and every other
\* transaction of its file is still emitted; a file that cannot be loaded
\* contributes no rows and every other file is still processed; each row
\* corresponds to one input transaction and carries the business name
\* mapped to the index of its file.
C24_FailuresContained == BatchReturned => Contained

\* A value that is no dict among the transactions of a loadable file.
HasForeignTransaction ==
    \E k \in 1..Len(uploaded_files) :
        /\ Loadable(k)
        /\ \E m \in 1..Len(GivenTransactions(k)) : ~IsDict(GivenTransactions(k)[m])

\* The failures are contained as stated unless a date range is given and
\* a transaction is no dict.
ContainedUnlessForeignUnderDateRange ==
    (BatchReturned /\ ~(DateRangeGiven /\ HasForeignTransaction)) => Contained

---------------------------------------------------------------------------
(* Claims about the database.                                              *)

\* The places of the calls of add_or_update_business with a given name.
AddCalls(name) ==
    {k \in 1..Len(calls) :
        calls[k].op = "add_or_update_business" /\ calls[k].name = name}

NamesPassed ==
    {calls[k].name :
        k \in {c \in 1..Len(calls) : calls[c].op = "add_or_update_business"}}

FirstOf(S) == CHOOSE k \in S : \A m \in S : k <= m

LastOf(S) == CHOOSE k \in S : \A m \in S : m <= k

\* C25: after any sequence of add_or_update_business calls the table
\* businesses holds exactly one row for each name ever passed; the row has
\* the processing percentage of the latest call for that name and the id
\* and created_date of the first, and every call returned that id.
C25_OneRowPerName ==
    /\ {row.name : row \in businesses} = NamesPassed
    /\ Cardinality(businesses) = Cardinality(NamesPassed)
    /\ \A row \in businesses :
          LET mine == AddCalls(row.name)
          IN  /\ row.processing_percentage
                    = calls[LastOf(mine)].processing_percentage
              /\ row.created_date = calls[FirstOf(mine)].current_time
              /\ row.id = calls[FirstOf(mine)].returned
              /\ \A k \in mine : calls[k].returned = row.id
    /\ \A r1, r2 \in businesses : r1.id = r2.id => r1 = r2

\* Two names were passed, one of them twice with different percentages.
C25_Witness ==
    /\ Cardinality(businesses) = 2
    /\ \E row \in businesses :
          /\ Cardinality(AddCalls(row.name)) = 2
          /\ calls[FirstOf(AddCalls(row.name))].processing_percentage
                # row.processing_percentage
          /\ row.created_date < row.updated_date

\* The places of the calls of save_processing_history.
SaveCalls == {k \in 1..Len(calls) : calls[k].op = "save_processing_history"}

SameBusinessAndDate(a, b) == a.business_id = b.business_id /\ a.date = b.date

SamePeriod(a, b) ==
    a.period_start = b.period_start /\ a.period_end = b.period_end

\* The record holds what the call k saved.
HoldsCall(row, k) == [row EXCEPT !.id = 0] = calls[k].record

---------------------------------------------------------------------------
(* Claims about the labels and the sign of the amount.                     *)

\* The amount is a number and not positive: a credit or zero.
NonDebit(t) == Comparable(Amount(t)) /\ Amount(t).v <= 0

\* C27 as stated: a record with amount <= 0 is never labelled Debt
\* Repayments, whatever its text and external category.
C27_DebtRepaymentsOnlyForDebits ==
    (Returned /\ NonDebit(txn)) => result # "Debt Repayments"

\* C27, amended: a record with amount <= 0 is labelled Debt Repayments
\* exactly when none of rules 1-5 matches, its external category begins
\* with the loan-payment prefix and its text holds loan vocabulary.
C27_NonDebitDebtRepaymentsOnlyByHint ==
    (Returned /\ NonDebit(txn))
        => ((result = "Debt Repayments")
                <=> (~Rules1to5(txn) /\ HasLoanPaymentPrefix(txn)
                        /\ HasLoanVocabulary(txn)))

\* A credit and a zero amount labelled Debt Repayments by the hint.
C27_Witness ==
    /\ Returned /\ NonDebit(txn) /\ result = "Debt Repayments"
    /\ HasLoanPaymentPrefix(txn) /\ HasLoanVocabulary(txn)
    /\ Amount(txn).v < 0

\* The external category is absent or the empty string.
NoExternalCategory(t) ==
    \/ "personal_finance_category.detailed" \notin DOMAIN t
    \/ t["personal_finance_category.detailed"] = PyStr("")

\* C28: a debit is never labelled Uncategorised; and when the external
\* category is absent or empty, a debit is labelled only Debt Repayments
\* or Expenses, a non-debit only Income, Loans, Expenses or Uncategorised,
\* and Special Inflow, Special Outflow and Failed Payment are not returned.
C28_LabelsBySign ==
    Returned =>
        /\ Debit(txn) => result # "Uncategorised"
        /\ NoExternalCategory(txn) =>
              /\ Debit(txn) => result \in {"Debt Repayments", "Expenses"}
              /\ NonDebit(txn)
                    => result \in {"Income", "Loans", "Expenses", "Uncategorised"}
              /\ result \notin {"Special Inflow", "Special Outflow",
                                "Failed Payment"}

\* A debit without external category and without keyword, labelled
\* Expenses by the default.
C28_Witness ==
    /\ Returned /\ Debit(txn) /\ NoExternalCategory(txn)
    /\ ~Rules1to5(txn)
    /\ result = "Expenses"

===========================================================================
